---- MODULE Spec2Model ----
(***************************************************************************)
(* A model of the bookshelf scanner backend: the reading-order sorter and  *)
(* detect pipeline of SpineDetector, the response parser of BookExtractor, *)
(* the scan and search handlers with their lazily built services, and the  *)
(* library (books, loans, identity) over its tables.                       *)
(*                                                                         *)
(* The specifications share the module's variables:                        *)
(*   SpecDetector   SpineDetector._sort_reading_order and detect_all       *)
(*   SpecRows       _sort_reading_order on shelves whose bands overlap     *)
(*   SpecExtractor  BookExtractor.extract and _parse_response              *)
(*   Spec           /scan/capture, /detect/spines and /books/search        *)
(*   SpecServices   the get calls of the three services                    *)
(*   SpecConcurrent the get calls of requests served at the same time      *)
(*   SpecIdentity   create_app and /library requests with and without the  *)
(*                  identity header                                        *)
(*   SpecLoans      loans on a user-book                                   *)
(*   SpecFriends    friends added and patched                              *)
(*   SpecBooks      upsert_user_book, singly and in batches                *)
(***************************************************************************)
EXTENDS Integers, Sequences, FiniteSets, TLC

VARIABLES
    \* ---- detector (detector.py) ----
    detections,      \* the list handed to _sort_reading_order by a caller
    sorted1,         \* _sort_reading_order(detections)
    sorted2,         \* _sort_reading_order(sorted1)
    raw,             \* the boxes of results[0] of model.predict
    min_area,        \* detect_all's min_area
    max_detections,  \* detect_all's max_detections
    crops_out,       \* detect_all's first result (the cropped images)
    spines_out,      \* detect_all's second result (the detections)
    dpc,             \* position of the detector scenario
    \* ---- extractor (extractor.py) ----
    response_in,     \* the text a caller or the backend supplies
    backend,         \* what backend.extract did: raised, or the dict returned
    parsed,          \* what extract / _parse_response did: raised, or returned
    ppc,             \* position of the extractor scenario
    \* ---- /scan/capture (routes/scan.py) ----
    spc,             \* position of the handler: await, loop, done
    earlier_titles,  \* normalized titles seen by earlier requests (history)
    api_key,         \* the catalog client's api_key attribute
    has_books_key,
    max_lookup_results,
    spines,          \* detect_all's detections
    idx,             \* position of the loop in spines (from 1)
    seen_extracted_titles,
    spine_results,
    trace,           \* per iteration: the extraction and the lookup (history)
    http_response,   \* the response of the request; status 0 while it runs
    request,         \* the request being handled: route, upload, form values
    calls,           \* what the request called on the services and components
    \* ---- services (services/*.py) ----
    _detector,       \* DetectorService._detector
    _extractor,      \* ExtractorService._extractor
    _books_client,   \* GoogleBooksService._books_client
    factory_calls,   \* per service: how often its factory was invoked
    gets,            \* the get calls made so far and what each did (history)
    callers,         \* per concurrent caller: where it stands inside a get call
    \* ---- library (routes/library.py, db/service.py, config/settings.py) ----
    app,             \* the Flask app: not created, running, or create_app raised
    User,            \* the rows of table users
    Book,            \* the rows of table books
    UserBook,        \* the rows of table user_books
    Loan,            \* the rows of table loans
    Friend,          \* the rows of table friends
    friend_payload,  \* the payload of the last friends request that wrote (history)
    next_id,         \* the rows created so far, plus one (stands for uuid4)
    upsert_log,      \* the upsert_user_book calls that returned (history)
    lib_response     \* the last /library request and its response

detVars == <<detections, sorted1, sorted2, raw, min_area, max_detections,
             crops_out, spines_out, dpc>>

extVars == <<response_in, backend, parsed, ppc>>

scanVars == <<spc, earlier_titles, api_key, has_books_key, max_lookup_results,
              spines, idx, seen_extracted_titles, spine_results, trace, http_response,
              request, calls>>

svcVars == <<_detector, _extractor, _books_client, factory_calls, gets, callers>>

libVars == <<app, User, Book, UserBook, Loan, Friend, friend_payload, next_id, upsert_log,
             lib_response>>

vars == <<detVars, extVars, scanVars, svcVars, libVars>>

(***************************************************************************)
(* Bounds.                                                                 *)
(***************************************************************************)
\* Longest list of detections tried.
MaxDet == 3

\* Longest response tried with every arrangement of the alphabet.
MaxLen == 3

Min(S) == CHOOSE x \in S : \A y \in S : x <= y
Max(S) == CHOOSE x \in S : \A y \in S : x >= y


(***************************************************************************)
(* Text.  A string is a sequence of tokens <<c, n>>: the first n characters *)
(* of the text c.  Single characters have n = 1; the words the parser looks *)
(* for ("title", "author", "null", "json") and the three-backquote fence are *)
(* one token each, and so are the key "confidence" and a number literal;    *)
(* <<"x", n>> is a run of n letters x.  Tokens are only ever cut by the     *)
(* slice [:500].                                                            *)
(***************************************************************************)
SP == <<" ", 1>>
NL == <<"\n", 1>>
QT == <<"\"", 1>>
COLON == <<":", 1>>
COMMA == <<",", 1>>
LBRACE == <<"{", 1>>
RBRACE == <<"}", 1>>
LBRACK == <<"[", 1>>
RBRACK == <<"]", 1>>
FENCE == <<"fence", 3>>
W_title == <<"title", 5>>
W_author == <<"author", 6>>
W_null == <<"null", 4>>
W_json == <<"json", 4>>
W_confidence == <<"confidence", 10>>
\* The number literals 0.3 and 5
N03 == <<"0.3", 3>>
N5 == <<"5", 1>>
NumberTokens == {N03, N5}
\* float(literal), in tenths
NumberValue(tok) == IF tok = N03 THEN 3 ELSE 50
LetterA == <<"a", 1>>
LetterB == <<"b", 1>>
UpperA == <<"A", 1>>
XRun(n) == <<"x", n>>

\* Python's None where a string may stand.
None == << <<"None", 0>> >>

\* str.isspace for one character.
IsSpace(t) == t[1] \in {" ", "\n"}

RECURSIVE StrLen(_)
\* len(s)
StrLen(s) == IF s = <<>> THEN 0 ELSE Head(s)[2] + StrLen(Tail(s))

\* s.strip()
strip(s) ==
    LET keep == {i \in 1..Len(s) : ~IsSpace(s[i])}
    IN  IF keep = {} THEN <<>> ELSE SubSeq(s, Min(keep), Max(keep))

RECURSIVE CollapseRuns(_)
CollapseRuns(s) ==
    IF s = <<>> THEN <<>>
    ELSE IF IsSpace(Head(s))
         THEN IF Len(s) > 1 /\ IsSpace(s[2]) THEN CollapseRuns(Tail(s))
              ELSE <<SP>> \o CollapseRuns(Tail(s))
         ELSE <<Head(s)>> \o CollapseRuns(Tail(s))

\* " ".join(value.split())
JoinSplit(s) == CollapseRuns(strip(s))

RECURSIVE Truncate(_, _)
\* s[:n] of a string
Truncate(s, n) ==
    IF s = <<>> \/ n <= 0 THEN <<>>
    ELSE IF Head(s)[2] <= n THEN <<Head(s)>> \o Truncate(Tail(s), n - Head(s)[2])
    ELSE << <<Head(s)[1], n>> >>

\* The first index >= i that holds no whitespace; Len(s) + 1 when none does.
SkipWs(s, i) ==
    LET c == {j \in i..Len(s) : ~IsSpace(s[j])}
    IN  IF c = {} THEN Len(s) + 1 ELSE Min(c)

\* The first index >= i that holds token t; 0 when none does.
IndexOf(s, i, t) ==
    LET c == {j \in i..Len(s) : s[j] = t}
    IN  IF c = {} THEN 0 ELSE Min(c)

At(s, i, t) == i >= 1 /\ i <= Len(s) /\ s[i] = t

(***************************************************************************)
(* schemas.py: SpineExtraction.  A field value handed to the constructor    *)
(* is a str, a number, None, something else (a list, a dict) or absent.     *)
(***************************************************************************)
Str(s) == [k |-> "str", s |-> s]
Num(tok) == [k |-> "num", s |-> <<tok>>]
Null == [k |-> "null", s |-> <<>>]
Other == [k |-> "other", s |-> <<>>]
Absent == [k |-> "absent", s |-> <<>>]

TitleMinLength == 1
TitleMaxLength == 500
AuthorMaxLength == 200

\* A raised exception in place of a returned SpineExtraction.
Raised(exc) ==
    [raised |-> TRUE, exc |-> exc, title |-> <<>>, author |-> None,
     confidence |-> 0, raw_response |-> None, stage |-> 0]

Returned(title, author, stage) ==
    [raised |-> FALSE, exc |-> "", title |-> title, author |-> author,
     confidence |-> 0, raw_response |-> None, stage |-> stage]

\* No collapsing of whitespace in the validator.
TitleLeftAsGiven(value) == value

\* clean_title: the cleaned value (empty when the validator raises).
clean_title(value) == JoinSplit(value)

\* clean_author
clean_author(a) ==
    IF a.k # "str" THEN None
    ELSE IF JoinSplit(a.s) = <<>> THEN None ELSE JoinSplit(a.s)

\* Field(..., min_length=1, max_length=500) on the value as given, then
\* clean_title.
TitleValid(t) ==
    /\ t.k = "str"
    /\ StrLen(t.s) >= TitleMinLength
    /\ StrLen(t.s) <= TitleMaxLength
    /\ clean_title(t.s) # <<>>

\* Optional[str] with max_length=200.
AuthorValid(a) ==
    \/ a.k \in {"absent", "null"}
    \/ a.k = "str" /\ StrLen(a.s) <= AuthorMaxLength

\* SpineExtraction(title=t, author=a): the model, or pydantic's
\* ValidationError (a ValueError).  stage records which branch of
\* _parse_response built it (0: extract's except branch).
SpineExtraction(t, a, stage) ==
    IF TitleValid(t) /\ AuthorValid(a)
    THEN Returned(clean_title(t.s), clean_author(a), stage)
    ELSE Raised("ValidationError")

\* float with ge=0.0, le=1.0: a number, or a string that is a number
\* literal, within the range; absent takes the default.
ConfidenceValid(c) ==
    \/ c.k = "absent"
    \/ /\ c.k \in {"num", "str"}
       /\ Len(c.s) = 1
       /\ c.s[1] \in NumberTokens
       /\ NumberValue(c.s[1]) >= 0
       /\ NumberValue(c.s[1]) <= 10

\* The validated confidence in tenths (default=0.0)
ConfidenceOf(c) == IF c.k = "absent" THEN 0 ELSE NumberValue(c.s[1])

\* SpineExtraction(**data) for a dict: title, author and confidence are the
\* fields a key of the model's alphabet can name; other keys are ignored.
SpineExtractionFrom(data, stage) ==
    IF TitleValid(data.title) /\ AuthorValid(data.author)
       /\ ConfidenceValid(data.confidence)
    THEN [Returned(clean_title(data.title.s), clean_author(data.author), stage)
              EXCEPT !.confidence = ConfidenceOf(data.confidence)]
    ELSE Raised("ValidationError")

(***************************************************************************)
(* schemas.py: DetectedSpine                                               *)
(***************************************************************************)
DetectedSpine(b, c, i) == [bbox |-> b, confidence |-> c, index |-> i]

width(d) == d.bbox[3] - d.bbox[1]

height(d) == d.bbox[4] - d.bbox[2]

area(d) == width(d) * height(d)

(***************************************************************************)
(* Python's sorted(key=...) and list.sort(key=...): a stable sort.  The    *)
(* list is given as <<key, item>> pairs.                                   *)
(***************************************************************************)
RECURSIVE InsertByKey(_, _)
InsertByKey(s, p) ==
    IF s = <<>> THEN <<p>>
    ELSE IF Head(s)[1] <= p[1] THEN <<Head(s)>> \o InsertByKey(Tail(s), p)
    ELSE <<p>> \o s

RECURSIVE SortedByKey(_)
SortedByKey(ps) ==
    IF ps = <<>> THEN <<>>
    ELSE InsertByKey(SortedByKey(SubSeq(ps, 1, Len(ps) - 1)), ps[Len(ps)])

Items(ps) == [i \in 1..Len(ps) |-> ps[i][2]]

(***************************************************************************)
(* detector.py: SpineDetector._sort_reading_order                          *)
(***************************************************************************)
\* sorted(detections, key=lambda d: d.bbox[0]) and row.sort(key=...)
SortByX1(dets) ==
    Items(SortedByKey([i \in 1..Len(dets) |-> <<dets[i].bbox[1], dets[i]>>]))

row_top(row) == Min({row[i].bbox[2] : i \in 1..Len(row)})

row_bottom(row) == Max({row[i].bbox[4] : i \in 1..Len(row)})

\* row_top <= det_center_y <= row_bottom with det_center_y = (y1 + y2) / 2,
\* a true division: compared here with both sides doubled.
CenterInRow(det, row) ==
    /\ 2 * row_top(row) <= det.bbox[2] + det.bbox[4]
    /\ det.bbox[2] + det.bbox[4] <= 2 * row_bottom(row)

\* The inner loop over rows: append to the first row that holds the center,
\* else start a new row.
\* The loop without its break: the row found last takes the detection.
PlaceInLatestRow(rows, det) ==
    LET fits == {r \in 1..Len(rows) : CenterInRow(det, rows[r])}
    IN  IF fits = {} THEN Append(rows, <<det>>)
        ELSE [rows EXCEPT ![Max(fits)] = Append(@, det)]

PlaceInRows(rows, det) ==
    LET fits == {r \in 1..Len(rows) : CenterInRow(det, rows[r])}
    IN  IF fits = {} THEN Append(rows, <<det>>)
        ELSE [rows EXCEPT ![Min(fits)] = Append(@, det)]

RECURSIVE AssignRows(_, _)
AssignRows(rows, dets) ==
    IF dets = <<>> THEN rows
    ELSE AssignRows(PlaceInRows(rows, Head(dets)), Tail(dets))

\* The rows left in creation order (rows.sort forgotten).
RowsLeftUnsorted(rows) == rows

\* rows.sort(key=lambda row: min(d.bbox[1] for d in row))
SortRowsByTop(rows) ==
    Items(SortedByKey([r \in 1..Len(rows) |-> <<row_top(rows[r]), rows[r]>>]))

RECURSIVE Flatten(_)
Flatten(rows) ==
    IF rows = <<>> THEN <<>> ELSE Head(rows) \o Flatten(Tail(rows))

\* The rows in creation order, as the loop over the x1-sorted list builds them.
GroupedRows(dets) == AssignRows(<<>>, SortByX1(dets))

\* The rows as returned: sorted by top, each sorted by x1.
BuiltRows(dets) ==
    LET rows == SortRowsByTop(GroupedRows(dets))
    IN  [r \in 1..Len(rows) |-> SortByX1(rows[r])]

\* list.sort on the argument itself instead of sorted(): the caller's list is
\* reordered.
CallerListSortedInPlace(dets) == SortByX1(dets)

\* What the caller's list holds after the call: sorted() copies, the rows are
\* new lists, so the argument is left as it was.
CallerListAfterSort(dets) == dets

_sort_reading_order(dets) ==
    IF dets = <<>> THEN dets ELSE Flatten(BuiltRows(dets))

(***************************************************************************)
(* detector.py: SpineDetector.detect and detect_all                        *)
(***************************************************************************)
\* int(v) of a non-negative float; v is held in half pixels.
IntOf(h) == h \div 2

\* tuple(map(int, box.xyxy[0].tolist()))
BoxToBbox(xyxy) == <<IntOf(xyxy[1]), IntOf(xyxy[2]), IntOf(xyxy[3]), IntOf(xyxy[4])>>

\* The loop over results[0].boxes: build a DetectedSpine with index i and
\* keep it when its area reaches min_area.
RECURSIVE CollectDetections(_, _, _)
CollectDetections(bxs, i, minArea) ==
    IF i > Len(bxs) THEN <<>>
    ELSE LET spine == DetectedSpine(BoxToBbox(bxs[i].xyxy), bxs[i].conf, i - 1)
         IN  (IF area(spine) >= minArea THEN <<spine>> ELSE <<>>)
             \o CollectDetections(bxs, i + 1, minArea)

\* s[:n] of Python.
SlicePrefix(s, n) ==
    IF n >= 0 THEN SubSeq(s, 1, IF n < Len(s) THEN n ELSE Len(s))
    ELSE SubSeq(s, 1, IF Len(s) + n > 0 THEN Len(s) + n ELSE 0)

\* for i, det in enumerate(detections): det.index = i
Reindexed(dets) == [i \in 1..Len(dets) |-> [dets[i] EXCEPT !.index = i - 1]]

\* image.crop((x1, y1, x2, y2)): the crop is known by the region it shows.
Crop(det) == [region |-> det.bbox]

\* Truncation before the sort: keeps the first boxes of the model output.
TruncatedBeforeSort(dets, maxDet) == _sort_reading_order(SlicePrefix(dets, maxDet))

\* detections = self._sort_reading_order(detections); detections[:max_detections]
OrderedForOutput(dets, maxDet) == SlicePrefix(_sort_reading_order(dets), maxDet)

\* The pairs detect() yields.
detect(bxs, minArea, maxDet) ==
    IF Len(bxs) = 0 THEN <<>>
    ELSE LET kept  == CollectDetections(bxs, 1, minArea)
             final == Reindexed(OrderedForOutput(kept, maxDet))
         IN  [i \in 1..Len(final) |-> <<Crop(final[i]), final[i]>>]

\* detect_all: the two lists built from the pairs.
detect_all(bxs, minArea, maxDet) ==
    LET pairs == detect(bxs, minArea, maxDet)
    IN  [images |-> [i \in 1..Len(pairs) |-> pairs[i][1]],
         spines |-> [i \in 1..Len(pairs) |-> pairs[i][2]]]

(***************************************************************************)
(* json.loads on the alphabet of the model: strings, numbers, null,        *)
(* objects and lists.  The decoder is run as a machine over the tokens: a stack of the *)
(* open containers, what is expected next, and, for an object at the top   *)
(* level, the values under "title", "author" and "confidence" (a repeated   *)
(* key keeps the last).                                                    *)
(***************************************************************************)
JsonFail ==
    [ok |-> FALSE, k |-> "none", title |-> Absent, author |-> Absent,
     confidence |-> Absent]

JsonStart ==
    [i |-> 1, stk |-> <<>>, expect |-> "value", key |-> <<>>,
     title |-> Absent, author |-> Absent, confidence |-> Absent,
     top |-> "none", status |-> "run"]

\* A value is complete and the text goes on at j: v is the value as a
\* constructor argument, kind its Python type.
Completed(st, v, kind, j) ==
    IF st.stk = <<>>
    THEN [st EXCEPT !.i = j, !.top = kind, !.expect = "end"]
    ELSE IF Len(st.stk) = 1 /\ st.stk[1] = "obj"
    THEN [st EXCEPT !.i = j, !.expect = "comma_or_close",
                    !.title = IF st.key = <<W_title>> THEN v ELSE @,
                    !.author = IF st.key = <<W_author>> THEN v ELSE @,
                    !.confidence = IF st.key = <<W_confidence>> THEN v ELSE @]
    ELSE [st EXCEPT !.i = j, !.expect = "comma_or_close"]

\* One step of the decoder at index i of the text s, where tok is the token
\* there (an empty one past the end) and close the index of the next quote
\* after it.  A string literal runs to the next quote; a line break inside
\* it is a control character, which strict decoding refuses.
DecodeToken(s, st, i, tok, close) ==
    LET strOk  == tok = QT /\ close # 0 /\ \A j \in (i + 1)..(close - 1) : s[j] # NL
        inObj  == st.stk # <<>> /\ st.stk[Len(st.stk)] = "obj"
        popped == [st EXCEPT !.stk = SubSeq(@, 1, Len(@) - 1)]
        failed == [st EXCEPT !.status = "fail"]
    IN  CASE st.expect = "end" ->
                [st EXCEPT !.i = i, !.status = IF i > Len(s) THEN "ok" ELSE "fail"]
          [] st.expect \in {"value", "value_or_close"} ->
                IF st.expect = "value_or_close" /\ tok = RBRACK
                THEN Completed(popped, Other, "list", i + 1)
                ELSE IF strOk
                THEN Completed(st, Str(SubSeq(s, i + 1, close - 1)), "str", close + 1)
                ELSE IF tok = W_null THEN Completed(st, Null, "null", i + 1)
                ELSE IF tok \in NumberTokens
                THEN Completed(st, Num(tok), "float", i + 1)
                ELSE IF tok = LBRACE
                THEN [st EXCEPT !.i = i + 1, !.stk = Append(@, "obj"),
                                !.expect = "key_or_close"]
                ELSE IF tok = LBRACK
                THEN [st EXCEPT !.i = i + 1, !.stk = Append(@, "arr"),
                                !.expect = "value_or_close"]
                ELSE failed
          [] st.expect \in {"key", "key_or_close"} ->
                IF st.expect = "key_or_close" /\ tok = RBRACE
                THEN Completed(popped, Other, "dict", i + 1)
                ELSE IF strOk
                THEN [st EXCEPT !.i = close + 1, !.expect = "colon",
                                !.key = IF Len(st.stk) = 1
                                        THEN SubSeq(s, i + 1, close - 1) ELSE @]
                ELSE failed
          [] st.expect = "colon" ->
                IF tok = COLON THEN [st EXCEPT !.i = i + 1, !.expect = "value"]
                ELSE failed
          [] st.expect = "comma_or_close" ->
                IF inObj /\ tok = RBRACE THEN Completed(popped, Other, "dict", i + 1)
                ELSE IF ~inObj /\ tok = RBRACK THEN Completed(popped, Other, "list", i + 1)
                ELSE IF tok = COMMA
                THEN [st EXCEPT !.i = i + 1, !.expect = IF inObj THEN "key" ELSE "value"]
                ELSE failed

\* The token at index i; an empty one past the end.
TokenAt(s, i) == IF i <= Len(s) THEN s[i] ELSE <<"", 0>>

\* The step at index i, whitespace skipped.
DecodeAt(s, st, i) == DecodeToken(s, st, i, TokenAt(s, i), IndexOf(s, i + 1, QT))

DecodeStep(s, st) == DecodeAt(s, st, SkipWs(s, st.i))

RECURSIVE Decode(_, _)
Decode(s, st) == IF st.status # "run" THEN st ELSE Decode(s, DecodeStep(s, st))

\* What json.loads returns, or that it raised.
Decoded(st) ==
    IF st.status = "ok"
    THEN [ok |-> TRUE, k |-> st.top, title |-> st.title, author |-> st.author,
          confidence |-> st.confidence]
    ELSE JsonFail

\* json.loads(s): one value, whitespace around it, nothing else.
json_loads(s) == Decoded(Decode(s, JsonStart))

(***************************************************************************)
(* extractor.py: the regular expressions of _parse_response, each as the   *)
(* first match re.search finds.  A match is <<text>>, no match is <<>>.    *)
(***************************************************************************)
\* The group of a fence pattern whose opening ends before index `from`:
\* \s*(.*?)\s*``` takes all whitespace, then the shortest text that
\* whitespace and a fence follow.
FenceGroup(r, from) ==
    LET start == SkipWs(r, from)
        f     == IndexOf(r, start, FENCE)
        ws    == {p \in start..f : \A q \in p..(f - 1) : IsSpace(r[q])}
    IN  SubSeq(r, start, Min(ws) - 1)

\* r"```json\s*(.*?)\s*```" with re.DOTALL
FencedJsonMatch(r) ==
    LET starts == {i \in 1..Len(r) : /\ r[i] = FENCE
                                      /\ At(r, i + 1, W_json)
                                      /\ IndexOf(r, i + 2, FENCE) # 0}
    IN  IF starts = {} THEN <<>> ELSE <<FenceGroup(r, Min(starts) + 2)>>

\* r"```\s*(.*?)\s*```" with re.DOTALL
FencedMatch(r) ==
    LET starts == {i \in 1..Len(r) : r[i] = FENCE /\ IndexOf(r, i + 1, FENCE) # 0}
    IN  IF starts = {} THEN <<>> ELSE <<FenceGroup(r, Min(starts) + 1)>>

\* r"\{[^{}]*\}"
BraceMatch(r) ==
    LET braces(i) == {j \in (i + 1)..Len(r) : r[j] \in {LBRACE, RBRACE}}
        starts == {i \in 1..Len(r) : /\ r[i] = LBRACE
                                      /\ braces(i) # {}
                                      /\ r[Min(braces(i))] = RBRACE}
    IN  IF starts = {} THEN <<>>
        ELSE <<SubSeq(r, Min(starts), Min(braces(Min(starts))))>>

\* Where the value of "<key>"\s*:\s* starts when the quoted key opens at i;
\* 0 when the text at i is not the key and a colon.
AfterColon(r, c) == IF At(r, c, COLON) THEN SkipWs(r, c + 1) ELSE 0

AfterKey(r, i, key) ==
    IF At(r, i, QT) /\ At(r, i + 1, key) /\ At(r, i + 2, QT)
    THEN AfterColon(r, SkipWs(r, i + 3))
    ELSE 0

\* The group "([^"]+)" when the opening quote is at q and the next quote at
\* close.
QuotedGroup(r, q, close) ==
    IF q # 0 /\ At(r, q, QT) /\ close > q + 1
    THEN <<SubSeq(r, q + 1, close - 1)>> ELSE <<>>

QuotedValueFrom(r, q) == QuotedGroup(r, q, IndexOf(r, q + 1, QT))

\* The match of '"<key>"\s*:\s*"([^"]+)"' that starts at i.
QuotedValueAt(r, key, i) == QuotedValueFrom(r, AfterKey(r, i, key))

FirstQuotedValue(r, key, starts) ==
    IF starts = {} THEN <<>> ELSE QuotedValueAt(r, key, Min(starts))

\* r'"<key>"\s*:\s*"([^"]+)"'
QuotedValueMatch(r, key) ==
    FirstQuotedValue(r, key, {i \in 1..Len(r) : QuotedValueAt(r, key, i) # <<>>})

\* r'"author"\s*:\s*null'
NullAt(r, q) == q # 0 /\ At(r, q, W_null)

AuthorNullMatch(r) == \E i \in 1..Len(r) : NullAt(r, AfterKey(r, i, W_author))

(***************************************************************************)
(* extractor.py: BookExtractor._parse_response                             *)
(***************************************************************************)
NoTextDetected ==
    <<LBRACK, <<"No", 2>>, SP, <<"Text", 4>>, SP, <<"Detected", 8>>, RBRACK>>

CouldNotParse ==
    <<LBRACK, <<"Could", 5>>, SP, <<"Not", 3>>, SP, <<"Parse", 5>>, RBRACK>>

ExtractionFailed ==
    <<LBRACK, <<"Extraction", 10>>, SP, <<"Failed", 6>>, RBRACK>>

FirstLineLimit == 500

\* SpineExtraction(**data)
FromData(data, stage) ==
    IF ~data.ok THEN Raised("JSONDecodeError")
    ELSE IF data.k # "dict" THEN Raised("TypeError")
    ELSE SpineExtractionFrom(data, stage)

\* data = json.loads(payload); return SpineExtraction(**data), inside
\* try/except (json.JSONDecodeError, TypeError, ValueError): the model built,
\* or Raised when any of the three was caught.
TryJson(payload, stage) == FromData(json_loads(payload), stage)

\* response.splitlines(): the text between line breaks.
RECURSIVE splitlines(_)
splitlines(s) ==
    LET nl == IndexOf(s, 1, NL)
    IN  IF s = <<>> THEN <<>>
        ELSE IF nl = 0 THEN <<s>>
        ELSE <<SubSeq(s, 1, nl - 1)>> \o splitlines(SubSeq(s, nl + 1, Len(s)))

\* [line.strip() for line in response.splitlines() if line.strip()]
StrippedLines(s) ==
    LET all == splitlines(s)
    IN  SelectSeq([i \in 1..Len(all) |-> strip(all[i])], LAMBDA l : l # <<>>)

\* re.sub(r"[{}\":\[\]]", "", line)
WithoutStructural(s) ==
    SelectSeq(s, LAMBDA t : t \notin {LBRACE, RBRACE, QT, COLON, LBRACK, RBRACK})

\* if title: return SpineExtraction(title=title, author=None), else the
\* last return.
TitleOrSentinel(title) ==
    IF title # <<>> THEN SpineExtraction(Str(title), Null, 7)
    ELSE SpineExtraction(Str(CouldNotParse), Null, 8)

\* The last line taken in place of the first.
LastLineTitle(lines) ==
    IF lines = <<>> THEN <<>>
    ELSE Truncate(strip(WithoutStructural(lines[Len(lines)])), FirstLineLimit)

\* re.sub(...).strip()[:500] of lines[0]; empty when there is no line.
FirstLineTitle(lines) ==
    IF lines = <<>> THEN <<>>
    ELSE Truncate(strip(WithoutStructural(lines[1])), FirstLineLimit)

\* The last two branches: the cleaned first line, else "[Could Not Parse]".
FirstLineOrSentinel(response) == TitleOrSentinel(FirstLineTitle(StrippedLines(response)))

\* author = None if author_null else (author_match.group(1) if author_match
\* else None)
RegexAuthor(author_match, author_null) ==
    IF author_null THEN Null
    ELSE IF author_match # <<>> THEN Str(author_match[1]) ELSE Null

\* if title_match: return SpineExtraction(...).  The call stands outside any
\* try: what it raises leaves _parse_response.
RegexStage(response, title_match, author_match, author_null) ==
    IF title_match # <<>>
    THEN SpineExtraction(Str(title_match[1]), RegexAuthor(author_match, author_null), 6)
    ELSE FirstLineOrSentinel(response)

\* The regex branch and what follows it.
RegexOrLater(response) ==
    RegexStage(response, QuotedValueMatch(response, W_title),
               QuotedValueMatch(response, W_author), AuthorNullMatch(response))

\* return inside try; the except clause goes on to what follows.
OrElse(tried, later) == IF ~tried.raised THEN tried ELSE later

\* if not match: continue; else the try on the payload.
TryMatch(match, stage) ==
    IF match = <<>> THEN Raised("no match") ELSE TryJson(match[1], stage)

\* for pattern in patterns: the three patterns in order, each tried on its
\* first match only.
PatternsOrLater(response) ==
    OrElse(TryMatch(FencedJsonMatch(response), 3),
           OrElse(TryMatch(FencedMatch(response), 4),
                  OrElse(TryMatch(BraceMatch(response), 5),
                         RegexOrLater(response))))

\* _parse_response after response = response.strip()
ParseStripped(response) ==
    IF response = <<>> THEN SpineExtraction(Str(NoTextDetected), Null, 1)
    ELSE OrElse(TryJson(response, 2), PatternsOrLater(response))

_parse_response(text) == ParseStripped(strip(text))

(***************************************************************************)
(* extractor.py: BookExtractor.extract.  The backend either raises or      *)
(* returns a dict; a key the dict lacks is None, a number is <<tenths>>.   *)
(***************************************************************************)
NoNumber == <<>>

\* a or b for the strings of the dict (None and "" are falsy)
OrStr(a, b) == IF a # None /\ a # <<>> THEN a ELSE b

\* a or b for the numbers of the dict (None and 0 are falsy)
OrNum(a, b) == IF a # NoNumber /\ a[1] # 0 THEN a ELSE b

\* max(0.0, min(1.0, confidence)), in tenths
Clamp(c) == IF c < 0 THEN 0 ELSE IF c > 10 THEN 10 ELSE c

\* The message alone, without the type of the exception.
MessageOnly(exc) == <<exc.msg>>

\* f"{type(exc).__name__}: {exc}"
FormatExc(exc) == <<exc.type, COLON, SP, exc.msg>>

\* A confidence the parser took from the JSON text is left in place.
ParsedConfidenceKept(p, answer, confidence) ==
    IF p.raised THEN p
    ELSE [p EXCEPT !.raw_response = answer,
                   !.confidence = IF @ # 0 THEN @ ELSE Clamp(confidence)]

\* parsed.raw_response = answer; parsed.confidence = max(0.0, min(1.0, ...));
\* not reached when _parse_response raised.
WithBackendFields(p, answer, confidence) ==
    IF p.raised THEN p
    ELSE [p EXCEPT !.raw_response = answer, !.confidence = Clamp(confidence)]

\* The lines of extract after answer = str(...).strip()
ExtractAnswer(answer, confidence) ==
    WithBackendFields(_parse_response(answer), answer, confidence)

extract(b) ==
    IF b.raised
    THEN [Returned(ExtractionFailed, None, 0) EXCEPT !.raw_response = FormatExc(b.exc)]
    ELSE ExtractAnswer(
             strip(OrStr(b.dict.answer, OrStr(b.dict.text, OrStr(b.dict.output, <<>>)))),
             OrNum(b.dict.confidence, OrNum(b.dict.score, OrNum(b.dict.probability, <<0>>)))[1])

(***************************************************************************)
(* Inputs of the extractor scenario.                                       *)
(***************************************************************************)
Alphabet ==
    {SP, NL, QT, COLON, COMMA, LBRACE, RBRACE, LBRACK, RBRACK, FENCE,
     W_title, W_author, W_null, W_json, LetterA}

ShortResponses == UNION {[1..n -> Alphabet] : n \in 0..MaxLen}

Quoted(s) == <<QT>> \o s \o <<QT>>

\* The value after "title": in a model answer; <<>> stands for no title key.
TitleValues ==
    {Quoted(<<LetterA>>), Quoted(<<SP>>), Quoted(<<>>), Quoted(<<XRun(501)>>),
     Quoted(<<LetterA, SP, SP, LetterB>>), <<W_null>>, <<>>}

\* The value after "author": <<>> stands for no author key.
AuthorValues ==
    {Quoted(<<LetterB>>), Quoted(<<SP>>), Quoted(<<XRun(201)>>), <<W_null>>,
     <<LBRACK, RBRACK>>, <<>>}

\* The members of the object: "title": tv, "author": av
Members(tv, av) ==
    LET t == IF tv = <<>> THEN <<>> ELSE Quoted(<<W_title>>) \o <<COLON, SP>> \o tv
        a == IF av = <<>> THEN <<>> ELSE Quoted(<<W_author>>) \o <<COLON>> \o av
    IN  IF t # <<>> /\ a # <<>> THEN t \o <<COMMA, SP>> \o a ELSE t \o a

Object(tv, av) == <<LBRACE>> \o Members(tv, av) \o <<RBRACE>>

Wrappers == {"object", "json fence", "fence", "prose", "members", "nested", "cut"}

Wrapped(w, tv, av) ==
    CASE w = "object"     -> Object(tv, av)
      [] w = "json fence" -> <<FENCE, W_json, NL>> \o Object(tv, av) \o <<NL, FENCE>>
      [] w = "fence"      -> <<FENCE, NL>> \o Object(tv, av) \o <<NL, FENCE>>
      [] w = "prose"      -> <<LetterB, SP>> \o Object(tv, av)
      [] w = "members"    -> Members(tv, av)
      [] w = "nested"     -> <<LBRACE>> \o Quoted(<<LetterA>>) \o <<COLON>> \o Object(tv, av) \o <<RBRACE>>
      [] w = "cut"        -> <<LBRACE>> \o Members(tv, av)

ModelAnswers == {Wrapped(w, tv, av) : w \in Wrappers, tv \in TitleValues, av \in AuthorValues}

\* The value after "confidence": in a model answer.
ConfidenceValues ==
    {<<N03>>, <<N5>>, <<W_null>>, Quoted(<<LetterA>>), Quoted(<<N03>>)}

\* members, "confidence": cv
WithConfidence(members, cv) ==
    (IF members = <<>> THEN <<>> ELSE members \o <<COMMA, SP>>)
        \o Quoted(<<W_confidence>>) \o <<COLON, SP>> \o cv

ScoredWrappers == {"object", "json fence", "prose"}

Scored(w, members) ==
    CASE w = "object"     -> <<LBRACE>> \o members \o <<RBRACE>>
      [] w = "json fence" -> <<FENCE, W_json, NL, LBRACE>> \o members \o <<RBRACE, NL, FENCE>>
      [] w = "prose"      -> <<LetterB, SP, LBRACE>> \o members \o <<RBRACE>>

\* Model answers that carry a confidence of their own.
ScoredAnswers ==
    {Scored(w, WithConfidence(Members(tv, av), cv)) :
        w \in ScoredWrappers,
        tv \in {Quoted(<<LetterA>>), Quoted(<<SP>>), <<>>},
        av \in {Quoted(<<LetterB>>), <<>>},
        cv \in ConfidenceValues}

\* "author": null written after or before the members, outside any complete
\* object.
AuthorNullMember == Quoted(<<W_author>>) \o <<COLON, SP, W_null>>

RepeatedAuthorAnswers ==
    {Members(Quoted(<<LetterA>>), Quoted(<<LetterB>>)) \o <<COMMA, SP>> \o AuthorNullMember,
     AuthorNullMember \o <<COMMA, SP>> \o Members(Quoted(<<LetterA>>), Quoted(<<LetterB>>)),
     <<LBRACE>> \o Members(Quoted(<<LetterA>>), Quoted(<<LetterB>>))
         \o <<COMMA, SP>> \o AuthorNullMember}

\* Answers in plain text: a first line longer than the limit followed by a
\* second line, and a line that the limit cuts behind a blank.
PlainAnswers ==
    {<<XRun(501), NL, LetterB>>,
     <<NL, SP, LBRACE, XRun(499), SP, LetterA, LetterB, NL, LetterB>>}

Responses ==
    ShortResponses \cup ModelAnswers \cup ScoredAnswers \cup RepeatedAuthorAnswers
        \cup PlainAnswers

Exceptions ==
    {[type |-> <<"RuntimeError", 12>>, msg |-> <<"model not loaded", 16>>],
     [type |-> <<"ValueError", 10>>, msg |-> <<"bad image", 9>>]}

NoDict == [answer |-> None, text |-> None, output |-> None,
           confidence |-> NoNumber, score |-> NoNumber, probability |-> NoNumber]

\* The dicts a backend returns for the text s.
BackendDicts(s) ==
    {[NoDict EXCEPT !.answer = s, !.confidence = <<9>>],
     [NoDict EXCEPT !.answer = s],
     [NoDict EXCEPT !.text = s, !.score = <<15>>],
     [NoDict EXCEPT !.output = s, !.probability = <<-5>>],
     [NoDict EXCEPT !.answer = <<>>, !.text = s, !.confidence = <<0>>, !.score = <<10>>]}

BackendRaised(exc) == [raised |-> TRUE, exc |-> exc, dict |-> NoDict]

BackendReturned(d) ==
    [raised |-> FALSE, exc |-> [type |-> <<"", 0>>, msg |-> <<"", 0>>], dict |-> d]

NoBackend == BackendReturned(NoDict)

NothingParsed == Raised("")

(***************************************************************************)
(* services/detector_service.py, extractor_service.py and                  *)
(* google_books_service.py: the lazily built components.  An instance is   *)
(* known by the number of the factory call that built it; made is what the *)
(* factory does if it is called.                                           *)
(***************************************************************************)
NoExc == [type |-> <<"", 0>>, msg |-> <<"", 0>>]

\* self._detector = None, self._extractor = None
NotLoaded == [id |-> 0]

\* self._books_client = None
NoClient == [id |-> 0, api_key |-> None]

Made(instance) == [raised |-> FALSE, exc |-> NoExc, instance |-> instance]

FailedToMake(exc, none) == [raised |-> TRUE, exc |-> exc, instance |-> none]

\* What a get call did: the attribute afterwards, whether the factory was
\* invoked, and the instance returned or the exception that left the call.
GetCached(cached) ==
    [cache |-> cached, factory_called |-> FALSE, raised |-> FALSE, exc |-> NoExc,
     result |-> cached]

GetRaised(cached, exc) ==
    [cache |-> cached, factory_called |-> TRUE, raised |-> TRUE, exc |-> exc,
     result |-> cached]

GetMade(instance) ==
    [cache |-> instance, factory_called |-> TRUE, raised |-> FALSE, exc |-> NoExc,
     result |-> instance]

\* The factory is invoked on every call and its product is not kept.
GetWithoutCaching(cached, made) ==
    IF made.raised THEN GetRaised(cached, made.exc)
    ELSE [GetMade(made.instance) EXCEPT !.cache = cached]

\* DetectorService.get_detector
get_detector(cached, made) ==
    IF cached # NotLoaded THEN GetCached(cached)
    ELSE IF made.raised THEN GetRaised(cached, made.exc)
    ELSE GetMade(made.instance)

\* ExtractorService.get_extractor
get_extractor(cached, made) ==
    IF cached # NotLoaded THEN GetCached(cached)
    ELSE IF made.raised THEN GetRaised(cached, made.exc)
    ELSE GetMade(made.instance)

\* GoogleBooksService.get_client
get_client(cached, made) ==
    IF cached # NoClient THEN GetCached(cached)
    ELSE IF made.raised THEN GetRaised(cached, made.exc)
    ELSE GetMade(made.instance)

Services == {"detector", "extractor", "books"}

\* Requests handled at the same time (one thread each).
MaxCallers == 2

Callers == 1..MaxCallers

\* A caller that is not inside a get call.
NotInGet == [pc |-> "idle", service |-> "", factory_called |-> FALSE, instance |-> NotLoaded]

\* Python's None where the library code handles strings, numbers and dates.
Nil == "<None>"

\* The Flask app before create_app is called.
NoApp == [state |-> "none", env |-> "", fallback |-> FALSE, error |-> ""]

\* No library request has been answered.
NoLibResponse ==
    [op |-> "", email |-> Nil, status |-> 0, error |-> "", id |-> 0, created |-> FALSE,
     user_book_id |-> 0]

\* A friends payload without any key (0: no friendUserId).
NoFriendPayload ==
    [name |-> Nil, email |-> Nil, avatarUrl |-> Nil, status |-> Nil, friendUserId |-> 0]

\* The library variables when another scenario runs.
LibIdle ==
    /\ app = NoApp
    /\ User = {}
    /\ Book = {}
    /\ UserBook = {}
    /\ Loan = {}
    /\ Friend = {}
    /\ friend_payload = NoFriendPayload
    /\ next_id = 1
    /\ upsert_log = <<>>
    /\ lib_response = NoLibResponse

\* The service variables before any get call.
SvcIdle ==
    /\ _detector = NotLoaded
    /\ _extractor = NotLoaded
    /\ _books_client = NoClient
    /\ factory_calls = [s \in Services |-> 0]
    /\ gets = <<>>
    /\ callers = [t \in Callers |-> NotInGet]

\* No request is being handled.
NoRequest ==
    [route |-> "", enabled |-> TRUE, upload |-> "", form |-> [int |-> TRUE, n |-> 0],
     q |-> <<>>]

\* The detector variables when another scenario runs.
DetIdle ==
    /\ detections = <<>>
    /\ sorted1 = <<>>
    /\ sorted2 = <<>>
    /\ raw = <<>>
    /\ min_area = 0
    /\ max_detections = 0
    /\ crops_out = <<>>
    /\ spines_out = <<>>
    /\ dpc = "idle"

\* The /scan/capture variables when another scenario runs.
NoResponse ==
    [status |-> 0, error |-> <<>>, count |-> 0, spines |-> <<>>, boxes |-> <<>>,
     totalItems |-> 0, items |-> <<>>]

ScanIdle ==
    /\ spc = "idle"
    /\ earlier_titles = {}
    /\ api_key = None
    /\ has_books_key = FALSE
    /\ max_lookup_results = 0
    /\ spines = <<>>
    /\ idx = 0
    /\ seen_extracted_titles = {}
    /\ spine_results = <<>>
    /\ trace = <<>>
    /\ http_response = NoResponse
    /\ request = NoRequest
    /\ calls = {}

\* The extractor variables when another scenario runs.
ExtIdle ==
    /\ response_in = <<>>
    /\ backend = NoBackend
    /\ parsed = NothingParsed
    /\ ppc = "idle"

ExtInit ==
    /\ LibIdle
    /\ DetIdle
    /\ ScanIdle
    /\ SvcIdle
    /\ response_in \in Responses
    /\ backend = NoBackend
    /\ parsed = NothingParsed
    /\ ppc = "ready"

\* A caller hands the text to _parse_response.
ParseResponse ==
    /\ ppc = "ready"
    /\ parsed' = _parse_response(response_in)
    /\ ppc' = "parsed"
    /\ UNCHANGED <<response_in, backend>>

\* extract(spine_image) with a backend that returns a dict holding the text.
ExtractReturned ==
    /\ ppc = "ready"
    /\ \E d \in BackendDicts(response_in) :
          /\ backend' = BackendReturned(d)
          /\ parsed' = extract(BackendReturned(d))
    /\ ppc' = "extracted"
    /\ UNCHANGED response_in

\* extract(spine_image) with a backend that raises.
ExtractRaised ==
    /\ ppc = "ready"
    /\ response_in = <<>>
    /\ \E exc \in Exceptions :
          /\ backend' = BackendRaised(exc)
          /\ parsed' = extract(BackendRaised(exc))
    /\ ppc' = "extracted"
    /\ UNCHANGED response_in

(***************************************************************************)
(* Inputs of the detector scenario.                                        *)
(***************************************************************************)
XCoords == 0..2

YCoords == 0..3

\* Boxes one pixel wide: x1 < x2 and y1 < y2.
Bboxes == {b \in XCoords \X YCoords \X (1..3) \X YCoords :
              b[3] = b[1] + 1 /\ b[2] < b[4]}

BboxLists == UNION {[1..n -> Bboxes] : n \in 0..MaxDet}

\* The boxes a model output is drawn from: areas 1, 2 and 1, two shelves.
DetectBboxes == {b \in Bboxes : b[1] <= 1 /\ <<b[2], b[4]>> \in {<<0, 1>>, <<0, 2>>, <<2, 3>>}}

DetectBboxLists == UNION {[1..n -> DetectBboxes] : n \in 0..MaxDet}

\* Detector confidences, in tenths: falling or rising along the model output.
ConfOf(rising, i) == IF rising THEN i ELSE 10 - i

MinAreaValues == {0, 2, 3}

MaxDetectionsValues == {-1, 0, 1, 2, 50}

\* A model output whose boxes truncate to bl: each coordinate is the pixel
\* plus frac halves.
RawOutput(bl, frac, rising) ==
    [i \in 1..Len(bl) |->
        [xyxy |-> <<2 * bl[i][1] + frac, 2 * bl[i][2] + frac,
                    2 * bl[i][3] + frac, 2 * bl[i][4] + frac>>,
         conf |-> ConfOf(rising, i)]]

DetInit ==
    /\ LibIdle
    /\ ExtIdle
    /\ ScanIdle
    /\ SvcIdle
    /\ sorted1 = <<>>
    /\ sorted2 = <<>>
    /\ crops_out = <<>>
    /\ spines_out = <<>>
    /\ \/ /\ dpc = "sort_ready"
          /\ \E bl \in BboxLists :
                detections = [i \in 1..Len(bl) |-> DetectedSpine(bl[i], ConfOf(FALSE, i), i - 1)]
          /\ raw = <<>>
          /\ min_area = 0
          /\ max_detections = 0
       \/ /\ dpc = "detect_ready"
          /\ detections = <<>>
          /\ \E bl \in DetectBboxLists, frac \in {0, 1}, rising \in BOOLEAN :
                raw = RawOutput(bl, frac, rising)
          /\ min_area \in MinAreaValues
          /\ max_detections \in MaxDetectionsValues

\* A caller sorts a list of detections.
SortCall ==
    /\ dpc = "sort_ready"
    /\ sorted1' = _sort_reading_order(detections)
    /\ detections' = CallerListAfterSort(detections)
    /\ dpc' = "sorted"
    /\ UNCHANGED <<sorted2, raw, min_area, max_detections, crops_out, spines_out>>
    /\ UNCHANGED <<extVars, scanVars, svcVars, libVars>>

\* The caller sorts the result again.
SortAgain ==
    /\ dpc = "sorted"
    /\ sorted2' = _sort_reading_order(sorted1)
    /\ dpc' = "resorted"
    /\ UNCHANGED <<detections, sorted1, raw, min_area, max_detections,
                   crops_out, spines_out>>
    /\ UNCHANGED <<extVars, scanVars, svcVars, libVars>>

\* detect_all on a model output.
DetectAll ==
    /\ dpc = "detect_ready"
    /\ LET res == detect_all(raw, min_area, max_detections)
       IN  /\ crops_out' = res.images
           /\ spines_out' = res.spines
    /\ dpc' = "detected"
    /\ UNCHANGED <<detections, sorted1, sorted2, raw, min_area, max_detections>>
    /\ UNCHANGED <<extVars, scanVars, svcVars, libVars>>

DetNext == SortCall \/ SortAgain \/ DetectAll

SpecDetector == DetInit /\ [][DetNext]_vars

ExtNext ==
    \/ ParseResponse /\ UNCHANGED <<detVars, scanVars, svcVars, libVars>>
    \/ ExtractReturned /\ UNCHANGED <<detVars, scanVars, svcVars, libVars>>
    \/ ExtractRaised /\ UNCHANGED <<detVars, scanVars, svcVars, libVars>>

SpecExtractor == ExtInit /\ [][ExtNext]_vars

(***************************************************************************)
(* scan.py and google_books_service.py: the helpers of /scan/capture       *)
(***************************************************************************)
LowerText(c) ==
    CASE c = "A" -> "a"
      [] c = "No" -> "no"
      [] c = "Text" -> "text"
      [] c = "Detected" -> "detected"
      [] c = "Could" -> "could"
      [] c = "Not" -> "not"
      [] c = "Parse" -> "parse"
      [] c = "Extraction" -> "extraction"
      [] c = "Failed" -> "failed"
      [] OTHER -> c

\* s.lower()
lower(s) == [i \in 1..Len(s) |-> <<LowerText(s[i][1]), s[i][2]>>]

\* s.startswith("[")
StartsWithBracket(s) == s # <<>> /\ s[1] = LBRACK

\* The title compared as it was extracted: no lowercasing.
NormalizedKeepingCase(title) == JoinSplit(strip(title))

\* _normalized_extracted_title
_normalized_extracted_title(title) == JoinSplit(lower(strip(title)))

\* The api_key attribute of the catalog client; NoAttr: the client has none.
NoAttr == << <<"no attribute", 0>> >>

\* A key of blanks counts as a key.
KeyUnlessNone(key) == key # None

has_books_api_key(key) ==
    IF key = NoAttr THEN TRUE
    ELSE IF key = None THEN FALSE
    ELSE strip(key) # <<>>

\* f"missing_api_key: {missing_api_key_message()}"
MissingApiKeyError ==
    << <<"missing_api_key", 15>>, COLON, SP,
       <<"Google Books API key is not configured. Set GOOGLE_BOOKS_API_KEY in secrets/.env.", 82>> >>

\* compact_lookup_item: the fields of the item the model follows.
compact_lookup_item(item) ==
    [id |-> item.id,
     title |-> IF item.volumeInfo.missing THEN None ELSE item.volumeInfo.title]

\* max(1, min(10, int(request.form.get("maxLookupResults", "3"))))
ClampLookupResults(requested) ==
    LET capped == IF requested < 10 THEN requested ELSE 10
    IN  IF capped > 1 THEN capped ELSE 1

\* lookup_total_items, lookup_items and lookup_error after the lookup branch
\* of one iteration.  lo is what books_client.lookup did, consulted only
\* when the call is made.
\* The branch taken for every title, sentinel or not.
LookupWhateverTitle(title, hasKey, maxResults, lo) ==
    IF ~hasKey
    THEN [called |-> FALSE, totalItems |-> 0, items |-> <<>>, error |-> MissingApiKeyError]
    ELSE [called |-> TRUE, totalItems |-> lo.totalItems, items |-> <<>>,
          error |-> IF lo.raised THEN FormatExc(lo.exc) ELSE None]

LookupOf(title, hasKey, maxResults, lo) ==
    IF title # <<>> /\ ~StartsWithBracket(title)
    THEN IF ~hasKey
         THEN [called |-> FALSE, totalItems |-> 0, items |-> <<>>, error |-> MissingApiKeyError]
         ELSE IF lo.raised
              THEN [called |-> TRUE, totalItems |-> 0, items |-> <<>>, error |-> FormatExc(lo.exc)]
              ELSE LET raw_items == SlicePrefix(lo.items, maxResults)
                   IN  [called |-> TRUE, totalItems |-> lo.totalItems,
                        items |-> [i \in 1..Len(raw_items) |-> compact_lookup_item(raw_items[i])],
                        error |-> None]
    ELSE [called |-> FALSE, totalItems |-> 0, items |-> <<>>, error |-> None]

\* The dict appended to spine_results.
\* The entry with the confidence of the extraction in place of the
\* detector's.
SpineResultWithExtractionConfidence(spine, extraction, lookup) ==
    [spineIndex |-> spine.index,
     bbox |-> spine.bbox,
     confidence |-> extraction.confidence,
     extraction |-> [title |-> extraction.title, author |-> extraction.author,
                     confidence |-> extraction.confidence],
     lookup |-> [totalItems |-> lookup.totalItems, items |-> lookup.items,
                 error |-> lookup.error]]

\* The entry numbered from one.
SpineResultCountingFromOne(spine, extraction, lookup) ==
    [spineIndex |-> spine.index + 1,
     bbox |-> spine.bbox,
     confidence |-> spine.confidence,
     extraction |-> [title |-> extraction.title, author |-> extraction.author,
                     confidence |-> extraction.confidence],
     lookup |-> [totalItems |-> lookup.totalItems, items |-> lookup.items,
                 error |-> lookup.error]]

SpineResult(spine, extraction, lookup) ==
    [spineIndex |-> spine.index,
     bbox |-> spine.bbox,
     confidence |-> spine.confidence,
     extraction |-> [title |-> extraction.title, author |-> extraction.author,
                     confidence |-> extraction.confidence],
     lookup |-> [totalItems |-> lookup.totalItems, items |-> lookup.items,
                 error |-> lookup.error]]

(***************************************************************************)
(* Inputs of the /scan/capture scenario.                                   *)
(***************************************************************************)
\* Most spines in one frame.
MaxSpines == 3

\* A frame with n spines side by side on one shelf.
Frame(n) == RawOutput([i \in 1..n |-> <<i - 1, 0, i, 2>>], 0, FALSE)

\* The form values minArea (every spine of a frame passes it) and
\* maxDetections (its default).
RequestMinArea == 0
DefaultMaxDetections == 50

\* What the vision model answers for a crop.
ScanAnswers ==
    {Object(Quoted(<<LetterA>>), Quoted(<<LetterB>>)),
     Object(Quoted(<<UpperA>>), <<W_null>>),
     Object(Quoted(<<LetterB>>), <<>>),
     <<>>,
     Object(Quoted(<<SP>>), <<>>)}

ScanBackendOutcomes ==
    {BackendReturned([NoDict EXCEPT !.answer = s, !.confidence = <<9>>]) : s \in ScanAnswers}
        \cup {BackendRaised([type |-> <<"RuntimeError", 12>>, msg |-> <<"model not loaded", 16>>])}

\* extractor.extract(crop_image) for each thing the backend may do.
ExtractCalls == {[backend |-> b, result |-> extract(b)] : b \in ScanBackendOutcomes}

\* An item of the catalog payload, with or without its volumeInfo.
Volume(k) == [id |-> k, volumeInfo |-> [missing |-> FALSE, title |-> <<LetterA>>]]

Bare(k) == [id |-> k, volumeInfo |-> [missing |-> TRUE, title |-> None]]

\* What books_client.lookup does when called.
LookupOutcomes ==
    {[raised |-> TRUE, exc |-> [type |-> <<"HTTPError", 9>>, msg |-> <<"503", 3>>],
      totalItems |-> 0, items |-> <<>>],
     [raised |-> FALSE, exc |-> [type |-> <<"", 0>>, msg |-> <<"", 0>>],
      totalItems |-> 7, items |-> <<Volume(1), Bare(2), Volume(3)>>]}

NoLookup ==
    [raised |-> FALSE, exc |-> [type |-> <<"", 0>>, msg |-> <<"", 0>>],
     totalItems |-> 0, items |-> <<>>]

ApiKeys == {NoAttr, None, <<SP>>, << <<"key", 3>> >>}

\* A form or query value that int() accepts, and one that it refuses.
FormInt(n) == [int |-> TRUE, n |-> n]

NotAnInteger == [int |-> FALSE, n |-> 0]

RequestedLookupResults == {0, 2, 20}

Uploads == {"ok", "missing", "empty", "undecodable"}

ImageRoutes == {"/scan/capture", "/detect/spines"}

\* The requests: the route, BOOKSHELF_SCAN_ENABLED, the state of the "image"
\* part, the value of maxLookupResults (maxResults for /books/search) and q.
ImageRequests(route) ==
    {[route |-> route, enabled |-> e, upload |-> u, form |-> f, q |-> <<>>] :
        e \in BOOLEAN, u \in Uploads,
        f \in {FormInt(n) : n \in RequestedLookupResults} \cup {NotAnInteger}}

SearchRequests ==
    {[route |-> "/books/search", enabled |-> TRUE, upload |-> "", form |-> f, q |-> q] :
        f \in {FormInt(20), NotAnInteger}, q \in {<<>>, <<SP>>, <<LetterA>>}}

ModelErrors == {[type |-> <<"RuntimeError", 12>>, msg |-> <<"model not loaded", 16>>]}

\* What the factories of the application do: the detector and the extractor
\* load a model, which may fail; the catalog client is built from the
\* configured key.
DetectorFactoryOutcomes(n) ==
    {FailedToMake(exc, NotLoaded) : exc \in ModelErrors} \cup {Made([id |-> n])}

ExtractorFactoryOutcomes(n) ==
    {FailedToMake(exc, NotLoaded) : exc \in ModelErrors} \cup {Made([id |-> n])}

BooksFactoryOutcomes(n) == {Made([id |-> n, api_key |-> k]) : k \in ApiKeys}

\* What books_client.search does when called.
SearchOutcomes == LookupOutcomes

(***************************************************************************)
(* scan.py and search.py: the handlers.  scan_capture takes one action per *)
(* step (its start, each iteration of its loop, its response); the shorter *)
(* handlers are one action each.                                           *)
(***************************************************************************)
ScanDisabled == << <<"scan_disabled", 13>> >>
MissingImageFile == << <<"missing_image_file", 18>> >>
EmptyImageFile == << <<"empty_image_file", 16>> >>
InvalidImage == << <<"invalid_image", 13>>, COLON, <<"cannot identify image file", 26>> >>
ModelUnavailable == << <<"model_unavailable", 17>> >>
MissingQuery == << <<"missing_query", 13>> >>
InvalidMaxResults == << <<"invalid_max_results", 19>> >>
MissingApiKey == << <<"missing_api_key", 15>> >>

ErrorResponse(status, error) == [NoResponse EXCEPT !.status = status, !.error = error]

\* The bytes of the upload are not decoded before the components are used.
UploadCheckWithoutDecoding(req) ==
    IF ~req.enabled THEN ErrorResponse(503, ScanDisabled)
    ELSE IF req.upload = "missing" THEN ErrorResponse(400, MissingImageFile)
    ELSE IF req.upload = "empty" THEN ErrorResponse(400, EmptyImageFile)
    ELSE NoResponse

\* The checks that open scan_capture and detect_spines: the response that
\* rejects the request, or NoResponse when the image was decoded.
UploadCheck(req) ==
    IF ~req.enabled THEN ErrorResponse(503, ScanDisabled)
    ELSE IF req.upload = "missing" THEN ErrorResponse(400, MissingImageFile)
    ELSE IF req.upload = "empty" THEN ErrorResponse(400, EmptyImageFile)
    ELSE IF req.upload = "undecodable" THEN ErrorResponse(400, InvalidImage)
    ELSE NoResponse

\* The exception is not caught: the framework answers 500.
UncaughtModelError(exc) == ErrorResponse(500, << <<exc.type[1], 0>> >>)

\* _model_error_payload
_model_error_payload(exc) == ErrorResponse(503, ModelUnavailable)

\* An exception that no handler catches: the framework answers 500 (the
\* error field names the exception for the reader of a trace).
ServerError(excType) == ErrorResponse(500, << <<excType, 0>> >>)

\* The name under which a factory that raised is kept in calls.
RaisedName(factory) ==
    IF factory = "detector_factory" THEN "detector_factory raised"
    ELSE IF factory = "extractor_factory" THEN "extractor_factory raised"
    ELSE "books_factory raised"

\* The calls a get made: the get itself and, when it ran, the factory.
CallsOfGet(get, factory, r) ==
    IF ~r.factory_called THEN {get}
    ELSE IF r.raised THEN {get, factory, RaisedName(factory)}
    ELSE {get, factory}

ScanInit ==
    /\ LibIdle
    /\ DetIdle
    /\ ExtIdle
    /\ SvcIdle
    /\ spc = "await"
    /\ earlier_titles = {}
    /\ api_key = None
    /\ has_books_key = FALSE
    /\ max_lookup_results = 0
    /\ spines = <<>>
    /\ idx = 0
    /\ seen_extracted_titles = {}
    /\ spine_results = <<>>
    /\ trace = <<>>
    /\ http_response = NoResponse
    /\ request = NoRequest
    /\ calls = {}

\* The handler's locals of a request that never reaches the loop.
NoLoop ==
    /\ spines' = <<>>
    /\ idx' = 0
    /\ seen_extracted_titles' = {}
    /\ spine_results' = <<>>
    /\ trace' = <<>>
    /\ UNCHANGED <<earlier_titles, api_key, has_books_key, max_lookup_results>>

\* /scan/capture or /detect/spines returns before the components are
\* acquired: a check on the upload fails, or int() refuses a form value.
RequestRejected ==
    /\ spc = "await"
    /\ \E route \in ImageRoutes : \E req \in ImageRequests(route) :
          /\ UploadCheck(req) # NoResponse \/ ~req.form.int
          /\ request' = req
          /\ http_response' = IF UploadCheck(req) # NoResponse THEN UploadCheck(req)
                              ELSE ServerError("ValueError")
    /\ calls' = {}
    /\ spc' = "done"
    /\ NoLoop
    /\ UNCHANGED svcVars

\* /scan/capture: get_detector or get_extractor raises inside the try.
ScanCaptureModelUnavailable ==
    /\ spc = "await"
    /\ \E req \in ImageRequests("/scan/capture") :
       \E dm \in DetectorFactoryOutcomes(1), em \in ExtractorFactoryOutcomes(1) :
          LET det == get_detector(_detector, dm)
              ext == get_extractor(_extractor, em)
          IN  /\ UploadCheck(req) = NoResponse
              /\ req.form.int
              /\ det.raised \/ ext.raised
              /\ request' = req
              /\ _detector' = det.cache
              /\ _extractor' = IF det.raised THEN _extractor ELSE ext.cache
              /\ calls' = IF det.raised
                          THEN CallsOfGet("get_detector", "detector_factory", det)
                          ELSE CallsOfGet("get_detector", "detector_factory", det)
                                  \cup CallsOfGet("get_extractor", "extractor_factory", ext)
              /\ http_response' = _model_error_payload(IF det.raised THEN det.exc ELSE ext.exc)
    /\ spc' = "done"
    /\ NoLoop
    /\ UNCHANGED <<_books_client, factory_calls, gets, callers>>

\* /scan/capture with a decoded image and both models: the form values are
\* read, the components acquired, detect_all run and the loop variables
\* initialised.
StartRequest ==
    /\ spc = "await"
    /\ \E req \in ImageRequests("/scan/capture"), n \in 0..MaxSpines :
       \E dm \in DetectorFactoryOutcomes(1), em \in ExtractorFactoryOutcomes(1),
          bm \in BooksFactoryOutcomes(1) :
          LET det == get_detector(_detector, dm)
              ext == get_extractor(_extractor, em)
              books == get_client(_books_client, bm)
          IN  /\ UploadCheck(req) = NoResponse
              /\ req.form.int
              /\ ~det.raised
              /\ ~ext.raised
              /\ request' = req
              /\ _detector' = det.cache
              /\ _extractor' = ext.cache
              /\ _books_client' = books.cache
              /\ calls' = CallsOfGet("get_detector", "detector_factory", det)
                             \cup CallsOfGet("get_extractor", "extractor_factory", ext)
                             \cup CallsOfGet("get_client", "books_factory", books)
                             \cup {"detect_all"}
              /\ api_key' = books.result.api_key
              /\ has_books_key' = has_books_api_key(books.result.api_key)
              /\ max_lookup_results' = ClampLookupResults(req.form.n)
              /\ spines' = detect_all(Frame(n), RequestMinArea, DefaultMaxDetections).spines
    /\ idx' = 1
    /\ seen_extracted_titles' = {}
    /\ spine_results' = <<>>
    /\ trace' = <<>>
    /\ http_response' = NoResponse
    /\ spc' = "loop"
    /\ UNCHANGED <<earlier_titles, factory_calls, gets, callers>>

\* One iteration of the loop over zip(spine_images, spines), with what the
\* vision backend and the catalog do in it.
ProcessSpine ==
    /\ spc = "loop"
    /\ idx <= Len(spines)
    /\ \E call \in ExtractCalls :
          LET extraction == call.result
              title == strip(extraction.title)
              normalized_title == _normalized_extracted_title(title)
              checked == normalized_title # <<>> /\ ~StartsWithBracket(normalized_title)
              duplicate == checked /\ normalized_title \in seen_extracted_titles
              willCall == title # <<>> /\ ~StartsWithBracket(title) /\ has_books_key
          IN  IF extraction.raised
              THEN \* the exception leaves extract and the handler
                   /\ http_response' = ServerError(extraction.exc)
                   /\ spc' = "done"
                   /\ trace' = Append(trace, [backend |-> call.backend,
                                              extraction |-> extraction, dropped |-> FALSE,
                                              lookup |-> "none", lo |-> NoLookup])
                   /\ calls' = calls \cup {"extract"}
                   /\ UNCHANGED <<idx, seen_extracted_titles, spine_results>>
              ELSE IF duplicate
              THEN \* continue
                   /\ idx' = idx + 1
                   /\ trace' = Append(trace, [backend |-> call.backend,
                                              extraction |-> extraction, dropped |-> TRUE,
                                              lookup |-> "none", lo |-> NoLookup])
                   /\ calls' = calls \cup {"extract"}
                   /\ UNCHANGED <<seen_extracted_titles, spine_results, http_response, spc>>
              ELSE \E lo \in (IF willCall THEN LookupOutcomes ELSE {NoLookup}) :
                     LET lookup == LookupOf(title, has_books_key, max_lookup_results, lo)
                     IN  /\ seen_extracted_titles' =
                               IF checked THEN seen_extracted_titles \cup {normalized_title}
                               ELSE seen_extracted_titles
                         /\ spine_results' =
                               Append(spine_results, SpineResult(spines[idx], extraction, lookup))
                         /\ trace' = Append(trace,
                               [backend |-> call.backend, extraction |-> extraction,
                                dropped |-> FALSE,
                                lookup |-> IF ~lookup.called THEN "none"
                                           ELSE IF lo.raised THEN "raised" ELSE "returned",
                                lo |-> lo])
                         /\ calls' = calls \cup (IF lookup.called THEN {"extract", "lookup"}
                                                 ELSE {"extract"})
                         /\ idx' = idx + 1
                         /\ UNCHANGED <<http_response, spc>>
    /\ UNCHANGED <<earlier_titles, api_key, has_books_key, max_lookup_results, spines,
                   request>>
    /\ UNCHANGED svcVars

\* The loop is over: the handler returns the JSON body with status 200.
Respond ==
    /\ spc = "loop"
    /\ idx > Len(spines)
    /\ http_response' = [NoResponse EXCEPT !.status = 200,
                                           !.count = Len(spine_results),
                                           !.spines = spine_results]
    /\ spc' = "done"
    /\ UNCHANGED <<earlier_titles, api_key, has_books_key, max_lookup_results,
                   spines, idx, seen_extracted_titles, spine_results, trace,
                   request, calls>>
    /\ UNCHANGED svcVars

\* The dict appended to boxes.
Box(spine) ==
    [index |-> spine.index, bbox |-> spine.bbox,
     w |-> Max({0, spine.bbox[3] - spine.bbox[1]}),
     h |-> Max({0, spine.bbox[4] - spine.bbox[2]}),
     confidence |-> spine.confidence]

\* /detect/spines with a decoded image: the detector is acquired and run.
DetectSpines ==
    /\ spc = "await"
    /\ \E req \in ImageRequests("/detect/spines"), n \in 0..MaxSpines :
       \E dm \in DetectorFactoryOutcomes(1) :
          LET det == get_detector(_detector, dm)
              found == detect_all(Frame(n), RequestMinArea, DefaultMaxDetections).spines
          IN  /\ UploadCheck(req) = NoResponse
              /\ req.form.int
              /\ request' = req
              /\ _detector' = det.cache
              /\ calls' = CallsOfGet("get_detector", "detector_factory", det)
                             \cup (IF det.raised THEN {} ELSE {"detect_all"})
              /\ http_response' =
                    IF det.raised THEN _model_error_payload(det.exc)
                    ELSE [NoResponse EXCEPT !.status = 200, !.count = Len(found),
                                            !.boxes = [i \in 1..Len(found) |-> Box(found[i])]]
    /\ spc' = "done"
    /\ NoLoop
    /\ UNCHANGED <<_extractor, _books_client, factory_calls, gets, callers>>

\* books_search after the query and maxResults were accepted: the client and
\* what the handler answers; so is what books_client.search does if called.
SearchWithClient(books, so) ==
    IF ~has_books_api_key(books.result.api_key)
    THEN [calls |-> CallsOfGet("get_client", "books_factory", books),
          response |-> ErrorResponse(503, MissingApiKey)]
    ELSE [calls |-> CallsOfGet("get_client", "books_factory", books) \cup {"search"},
          response |->
             IF so.raised THEN ServerError(so.exc.type[1])
             ELSE [NoResponse EXCEPT
                      !.status = 200, !.totalItems = so.totalItems,
                      !.items = [i \in 1..Len(so.items) |-> compact_lookup_item(so.items[i])]]]

\* /books/search
books_search ==
    /\ spc = "await"
    /\ \E req \in SearchRequests :
       \E bm \in BooksFactoryOutcomes(1), so \in SearchOutcomes :
          LET books == get_client(_books_client, bm)
              query == strip(req.q)
          IN  /\ request' = req
              /\ IF query = <<>>
                 THEN /\ http_response' = ErrorResponse(400, MissingQuery)
                      /\ calls' = {}
                      /\ UNCHANGED _books_client
                 ELSE IF ~req.form.int
                 THEN /\ http_response' = ErrorResponse(400, InvalidMaxResults)
                      /\ calls' = {}
                      /\ UNCHANGED _books_client
                 ELSE /\ http_response' = SearchWithClient(books, so).response
                      /\ calls' = SearchWithClient(books, so).calls
                      /\ _books_client' = books.cache
    /\ spc' = "done"
    /\ NoLoop
    /\ UNCHANGED <<_detector, _extractor, factory_calls, gets, callers>>

\* The response has been sent: the handler's locals are gone and the worker
\* waits for the next request.
AwaitNextRequest ==
    /\ spc = "done"
    /\ earlier_titles' = earlier_titles \cup seen_extracted_titles
    /\ spines' = <<>>
    /\ idx' = 0
    /\ seen_extracted_titles' = {}
    /\ spine_results' = <<>>
    /\ trace' = <<>>
    /\ http_response' = NoResponse
    /\ request' = NoRequest
    /\ calls' = {}
    /\ api_key' = None
    /\ has_books_key' = FALSE
    /\ max_lookup_results' = 0
    /\ spc' = "await"
    /\ UNCHANGED svcVars

Next ==
    \/ RequestRejected /\ UNCHANGED <<detVars, extVars, libVars>>
    \/ ScanCaptureModelUnavailable /\ UNCHANGED <<detVars, extVars, libVars>>
    \/ StartRequest /\ UNCHANGED <<detVars, extVars, libVars>>
    \/ ProcessSpine /\ UNCHANGED <<detVars, extVars, libVars>>
    \/ Respond /\ UNCHANGED <<detVars, extVars, libVars>>
    \/ DetectSpines /\ UNCHANGED <<detVars, extVars, libVars>>
    \/ books_search /\ UNCHANGED <<detVars, extVars, libVars>>
    \/ AwaitNextRequest /\ UNCHANGED <<detVars, extVars, libVars>>

Spec == ScanInit /\ [][Next]_vars

(***************************************************************************)
(* The services on their own: a series of get calls, one after another,    *)
(* with factories that build a new instance or raise.                      *)
(***************************************************************************)
\* Longest series of get calls.
MaxGets == 4

SvcInit ==
    /\ LibIdle
    /\ DetIdle
    /\ ExtIdle
    /\ ScanIdle
    /\ _detector = NotLoaded
    /\ _extractor = NotLoaded
    /\ _books_client = NoClient
    /\ factory_calls = [s \in Services |-> 0]
    /\ gets = <<>>
    /\ callers = [t \in Callers |-> NotInGet]

\* What the factory of a service does on its n-th invocation.
FactoryOutcomes(service, n) ==
    IF service = "detector" THEN DetectorFactoryOutcomes(n)
    ELSE IF service = "extractor" THEN ExtractorFactoryOutcomes(n)
    ELSE BooksFactoryOutcomes(n) \cup {FailedToMake(exc, NoClient) : exc \in ModelErrors}

\* The record of a get call kept in gets.
GetRecord(service, r) ==
    [service |-> service, factory_called |-> r.factory_called, raised |-> r.raised,
     id |-> r.result.id]

AfterGet(service, r) ==
    /\ factory_calls' = IF r.factory_called
                        THEN [factory_calls EXCEPT ![service] = @ + 1]
                        ELSE factory_calls
    /\ gets' = Append(gets, GetRecord(service, r))
    /\ UNCHANGED callers

GetDetector ==
    /\ Len(gets) < MaxGets
    /\ \E made \in FactoryOutcomes("detector", factory_calls["detector"] + 1) :
          /\ _detector' = get_detector(_detector, made).cache
          /\ AfterGet("detector", get_detector(_detector, made))
    /\ UNCHANGED <<_extractor, _books_client>>

GetExtractor ==
    /\ Len(gets) < MaxGets
    /\ \E made \in FactoryOutcomes("extractor", factory_calls["extractor"] + 1) :
          /\ _extractor' = get_extractor(_extractor, made).cache
          /\ AfterGet("extractor", get_extractor(_extractor, made))
    /\ UNCHANGED <<_detector, _books_client>>

GetClient ==
    /\ Len(gets) < MaxGets
    /\ \E made \in FactoryOutcomes("books", factory_calls["books"] + 1) :
          /\ _books_client' = get_client(_books_client, made).cache
          /\ AfterGet("books", get_client(_books_client, made))
    /\ UNCHANGED <<_detector, _extractor>>

SvcNext ==
    \/ GetDetector /\ UNCHANGED <<detVars, extVars, scanVars, libVars>>
    \/ GetExtractor /\ UNCHANGED <<detVars, extVars, scanVars, libVars>>
    \/ GetClient /\ UNCHANGED <<detVars, extVars, scanVars, libVars>>

SpecServices == SvcInit /\ [][SvcNext]_vars

(***************************************************************************)
(* The services under concurrent requests.  flask_app.run serves each      *)
(* request on a thread of its own and the get methods take no lock, so the *)
(* statements of two calls interleave: the test of the attribute, the call *)
(* of the factory, the assignment and the read for the return.             *)
(***************************************************************************)
Cached(service) ==
    IF service = "detector" THEN _detector
    ELSE IF service = "extractor" THEN _extractor
    ELSE _books_client

Unset(service) == IF service = "books" THEN NoClient ELSE NotLoaded

InFlight == {t \in Callers : callers[t].pc # "idle"}

\* if self._detector is None:
TestCached(t, service) ==
    /\ callers[t].pc = "idle"
    /\ Len(gets) + Cardinality(InFlight) < MaxGets
    /\ callers' = [callers EXCEPT ![t] =
                      [pc |-> IF Cached(service) = Unset(service) THEN "factory" ELSE "return",
                       service |-> service, factory_called |-> FALSE,
                       instance |-> NotLoaded]]
    /\ UNCHANGED <<_detector, _extractor, _books_client, factory_calls, gets>>

\* self._detector_factory(): the value is held by the caller until it is
\* assigned; an exception leaves the get call.
CallFactory(t, made) ==
    /\ callers[t].pc = "factory"
    /\ factory_calls' = [factory_calls EXCEPT ![callers[t].service] = @ + 1]
    /\ IF made.raised
       THEN /\ callers' = [callers EXCEPT ![t] = NotInGet]
            /\ gets' = Append(gets, [service |-> callers[t].service, factory_called |-> TRUE,
                                     raised |-> TRUE, id |-> 0])
       ELSE /\ callers' = [callers EXCEPT ![t] =
                              [@ EXCEPT !.pc = "assign", !.factory_called = TRUE,
                                        !.instance = made.instance]]
            /\ UNCHANGED gets
    /\ UNCHANGED <<_detector, _extractor, _books_client>>

\* self._detector = <the value the factory returned>
AssignCached(t) ==
    /\ callers[t].pc = "assign"
    /\ _detector' = IF callers[t].service = "detector" THEN callers[t].instance ELSE _detector
    /\ _extractor' = IF callers[t].service = "extractor" THEN callers[t].instance ELSE _extractor
    /\ _books_client' = IF callers[t].service = "books" THEN callers[t].instance
                        ELSE _books_client
    /\ callers' = [callers EXCEPT ![t].pc = "return"]
    /\ UNCHANGED <<factory_calls, gets>>

\* return self._detector: the attribute is read again.
ReturnCached(t) ==
    /\ callers[t].pc = "return"
    /\ gets' = Append(gets, [service |-> callers[t].service,
                             factory_called |-> callers[t].factory_called,
                             raised |-> FALSE, id |-> Cached(callers[t].service).id])
    /\ callers' = [callers EXCEPT ![t] = NotInGet]
    /\ UNCHANGED <<_detector, _extractor, _books_client, factory_calls>>

ConcurrentInit == SvcInit

ConcurrentNext ==
    \/ /\ \E t \in Callers, service \in Services : TestCached(t, service)
       /\ UNCHANGED <<detVars, extVars, scanVars, libVars>>
    \/ /\ \E t \in {c \in Callers : callers[c].pc = "factory"} :
             \E made \in FactoryOutcomes(callers[t].service,
                                          factory_calls[callers[t].service] + 1) :
                 CallFactory(t, made)
       /\ UNCHANGED <<detVars, extVars, scanVars, libVars>>
    \/ /\ \E t \in Callers : AssignCached(t)
       /\ UNCHANGED <<detVars, extVars, scanVars, libVars>>
    \/ /\ \E t \in Callers : ReturnCached(t)
       /\ UNCHANGED <<detVars, extVars, scanVars, libVars>>

SpecConcurrent == ConcurrentInit /\ [][ConcurrentNext]_vars

(***************************************************************************)
(* The library.  Strings are TLA+ strings; Nil is None, NotAString a value  *)
(* of another type (a number) where the code expects a str.  strip and      *)
(* lower are tabulated on the strings the scenarios use.  A row id stands   *)
(* for a uuid4: the number of the row among those created.                  *)
(***************************************************************************)
NotAString == "<int>"

\* str.strip
Strip(s) ==
    CASE s = " " -> ""
      [] s = " g1 " -> "g1"
      [] s = " Ann@x.io " -> "Ann@x.io"
      [] s = "DUNE " -> "DUNE"
      [] s = "Returned " -> "Returned"
      [] OTHER -> s

\* str.lower
Lower(s) ==
    CASE s = "Ann@x.io" -> "ann@x.io"
      [] s = "DUNE" -> "dune"
      [] s = "Dune" -> "dune"
      [] s = "Emma" -> "emma"
      [] s = "Returned" -> "returned"
      [] s = "Blocked" -> "blocked"
      [] s = "Production" -> "production"
      [] OTHER -> s

\* value or ""
OrEmpty(value) == IF value = Nil THEN "" ELSE value

\* text or None
OrNone(text) == IF text = "" THEN Nil ELSE text

_normalize_text(value) == Lower(Strip(OrEmpty(value)))

_as_string_or_none(value) == IF value = Nil THEN Nil ELSE OrNone(Strip(value))

\* The dates of the scenarios: one that datetime.fromisoformat accepts, one
\* that it refuses, and what _utcnow returns.
IsoDate == "2024-05-01"
NotADate == "soon"
UtcNow == "<now>"

_parse_iso_datetime(value) ==
    IF value = Nil \/ value = NotAString THEN Nil
    ELSE IF Strip(value) = "" THEN Nil
    ELSE IF Strip(value) = IsoDate THEN IsoDate
    ELSE Nil

\* A rating in a payload: None, a number (in thousandths) or a string that
\* float() refuses.  A stored rating is None or a number in hundredths.
NoRating == [k |-> "none", v |-> 0]
RatingNumber(v) == [k |-> "num", v |-> v]
RatingText == [k |-> "str", v |-> 0]

\* round(numeric, 2) of a number of thousandths that is not half way.
Round2(v) == (v + 5) \div 10

_coerce_rating(value) ==
    IF value.k # "num" THEN NoRating
    ELSE IF value.v < 0 THEN RatingNumber(0)
    ELSE IF value.v > 5000 THEN RatingNumber(500)
    ELSE RatingNumber(Round2(value.v))

\* Python's True and False in a payload.
PyTrue == "<True>"
PyFalse == "<False>"

_coerce_bool(value, default) ==
    IF value = PyTrue THEN TRUE
    ELSE IF value = PyFalse THEN FALSE
    ELSE IF value # Nil /\ Lower(Strip(value)) \in {"1", "true", "yes", "y", "on"} THEN TRUE
    ELSE IF value # Nil /\ Lower(Strip(value)) \in {"0", "false", "no", "n", "off"} THEN FALSE
    ELSE default

ALLOWED_LOAN_STATUSES == {"active", "returned"}

_status_or_default(value, allowed, default) ==
    IF (IF Lower(Strip(OrEmpty(value))) = "" THEN default
        ELSE Lower(Strip(OrEmpty(value)))) \in allowed
    THEN (IF Lower(Strip(OrEmpty(value))) = "" THEN default
          ELSE Lower(Strip(OrEmpty(value))))
    ELSE default

(***************************************************************************)
(* config/settings.py and app/factory.py: create_app                       *)
(***************************************************************************)
\* validate_runtime_config: the message of the RuntimeError, "" if none.
FallbackInProduction == "BOOKSHELF_ENABLE_DEV_IDENTITY_FALLBACK cannot be enabled in production."
DatabaseUrlRequired == "DATABASE_URL is required when BOOKSHELF_ENV=production."

NormalizedEnv(env) ==
    IF Lower(Strip(env)) = "" THEN "development" ELSE Lower(Strip(env))

validate_runtime_config(config) ==
    IF NormalizedEnv(config.env) = "production" /\ config.fallback
    THEN FallbackInProduction
    ELSE IF NormalizedEnv(config.env) = "production" /\ Strip(config.database_url) = ""
    THEN DatabaseUrlRequired
    ELSE ""

\* create_app: the app runs with the configuration, or the call raised.
create_app(config) ==
    IF validate_runtime_config(config) # ""
    THEN [state |-> "raised", env |-> config.env, fallback |-> config.fallback,
          error |-> validate_runtime_config(config)]
    ELSE [state |-> "running", env |-> config.env, fallback |-> config.fallback,
          error |-> ""]

(***************************************************************************)
(* routes/library.py: the identity of a request                            *)
(***************************************************************************)
DevUserEmail == "localdev@bookshelf.local"
DevUserUsername == "localdev"

\* The rule without the switch: a request without the header always acts
\* under the development identity.
FallbackAlways(header_email, fallback_enabled) ==
    IF Strip(OrEmpty(header_email)) # "" THEN Strip(OrEmpty(header_email))
    ELSE DevUserEmail

\* _effective_dev_identity: the email the request acts under, Nil when
\* MissingIdentityError is raised.
_effective_dev_identity(header_email, fallback_enabled) ==
    IF Strip(OrEmpty(header_email)) # "" THEN Strip(OrEmpty(header_email))
    ELSE IF ~fallback_enabled THEN Nil
    ELSE DevUserEmail

\* The first of username, username-2, username-3, ... that no row has.
FreeSuffix(rows, base) ==
    CHOOSE n \in 1..(Cardinality(rows) + 1) :
        /\ [base |-> base, suffix |-> n] \notin {u.username : u \in rows}
        /\ \A m \in 1..(n - 1) : [base |-> base, suffix |-> m] \in {u.username : u \in rows}

\* get_or_create_dev_user: the rows afterwards and the row returned.
Reactivated(u) ==
    [u EXCEPT !.is_active = TRUE, !.badge = IF u.badge = "" THEN "PATRON" ELSE u.badge]

NewUser(rows, id, email, username) ==
    [id |-> id, email |-> email, username |-> [base |-> username, suffix |-> FreeSuffix(rows, username)],
     is_active |-> TRUE, badge |-> "PATRON"]

get_or_create_dev_user(rows, id, email, username) ==
    IF \E u \in rows : u.email = Lower(Strip(email))
    THEN [rows |-> {IF u.email = Lower(Strip(email)) THEN Reactivated(u) ELSE u : u \in rows},
          user |-> Reactivated(CHOOSE u \in rows : u.email = Lower(Strip(email))),
          created |-> 0]
    ELSE [rows |-> rows \cup {NewUser(rows, id, Lower(Strip(email)), username)},
          user |-> NewUser(rows, id, Lower(Strip(email)), username),
          created |-> 1]

(***************************************************************************)
(* db/service.py: books.  A payload carries title, author, publishedYear,  *)
(* googleBooksId, rating, source and loaned; the other keys of the code     *)
(* (shelf, status, review, dates, ...) are absent from every payload.       *)
(***************************************************************************)
\* publishedYear None.
NoYear == -1

_parse_published_year(value) == IF 0 <= value /\ value <= 3000 THEN value ELSE NoYear

\* The first author of _split_author_line (the scenarios have no commas).
PrimaryAuthor(author_line) == OrNone(Strip(OrEmpty(author_line)))

\* No row.
NoBook ==
    [id |-> 0, google_books_id |-> Nil, title |-> "", title_normalized |-> "",
     primary_author |-> Nil, published_year |-> NoYear]

PayloadBookId(payload) == OrNone(Strip(OrEmpty(payload.googleBooksId)))

\* The rows the title query returns.
Candidates(rows, payload) ==
    {b \in rows :
        /\ b.title_normalized = _normalize_text(Strip(OrEmpty(payload.title)))
        /\ \/ _parse_published_year(payload.publishedYear) = NoYear
           \/ b.published_year = _parse_published_year(payload.publishedYear)}

\* The rows among which the code returns the first one the database lists:
\* query.all() has no ORDER BY.
FirstOf(candidates, author) ==
    IF author = "" THEN candidates
    ELSE IF \E c \in candidates : _normalize_text(c.primary_author) = author
    THEN {c \in candidates : _normalize_text(c.primary_author) = author}
    ELSE candidates

\* _find_book_for_payload: the rows it can return, NoBook for None.
_find_book_for_payload(rows, payload) ==
    IF PayloadBookId(payload) # Nil
       /\ \E b \in rows : b.google_books_id = PayloadBookId(payload)
    THEN {b \in rows : b.google_books_id = PayloadBookId(payload)}
    ELSE IF _normalize_text(Strip(OrEmpty(payload.title))) = "" THEN {NoBook}
    ELSE IF Candidates(rows, payload) = {} THEN {NoBook}
    ELSE FirstOf(Candidates(rows, payload), _normalize_text(PrimaryAuthor(payload.author)))

\* _apply_book_payload
_apply_book_payload(book, payload) ==
    [id |-> book.id,
     google_books_id |-> PayloadBookId(payload),
     title |-> IF Strip(OrEmpty(payload.title)) = "" THEN "Untitled"
               ELSE Strip(OrEmpty(payload.title)),
     title_normalized |-> _normalize_text(IF Strip(OrEmpty(payload.title)) = "" THEN "Untitled"
                                          ELSE Strip(OrEmpty(payload.title))),
     primary_author |-> PrimaryAuthor(payload.author),
     published_year |-> _parse_published_year(payload.publishedYear)]

\* A UserBook as the constructor leaves it: the column defaults are applied
\* by the flush, until then source, loaned and rating are None.
NoUserBook ==
    [id |-> 0, user_id |-> 0, book_id |-> 0, source |-> Nil, loaned |-> FALSE,
     rating |-> NoRating]

\* (payload.get("source") or user_book.source or "scan").strip() or "scan"
SourceOf(payload, user_book) ==
    IF Strip(IF OrEmpty(payload.source) # "" THEN payload.source
             ELSE IF OrEmpty(user_book.source) # "" THEN user_book.source
             ELSE "scan") = ""
    THEN "scan"
    ELSE Strip(IF OrEmpty(payload.source) # "" THEN payload.source
               ELSE IF OrEmpty(user_book.source) # "" THEN user_book.source
               ELSE "scan")

\* The keys on which the code calls .strip() hold a str or nothing.
PayloadRaises(payload) == payload.source = NotAString

\* The assignments of upsert_user_book to the row found or made.
UserBookWritten(user_book, payload) ==
    [user_book EXCEPT
        !.source = SourceOf(payload, user_book),
        !.loaned = _coerce_bool(payload.loaned, user_book.loaned),
        !.rating = IF _coerce_rating(payload.rating) # NoRating
                   THEN _coerce_rating(payload.rating)
                   ELSE user_book.rating]

\* The row of the user for the book, NoUserBook if there is none.
UserBookOf(rows, user_id, book_id) ==
    IF \E ub \in rows : ub.user_id = user_id /\ ub.book_id = book_id
    THEN CHOOSE ub \in rows : ub.user_id = user_id /\ ub.book_id = book_id
    ELSE NoUserBook

\* upsert_user_book, given the row _find_book_for_payload returned and the
\* row found for the user: the tables afterwards, the row written, created.
UpsertInto(book_rows, ub_rows, id, user_id, payload, book, user_book) ==
    [raised |-> FALSE,
     Book |-> {b \in book_rows : b.id # book.id}
              \cup {_apply_book_payload(IF book = NoBook THEN [NoBook EXCEPT !.id = id] ELSE book,
                                        payload)},
     UserBook |-> {ub \in ub_rows : ub.id # user_book.id}
                  \cup {UserBookWritten(
                          IF user_book = NoUserBook
                          THEN [NoUserBook EXCEPT
                                  !.id = IF book = NoBook THEN id + 1 ELSE id,
                                  !.user_id = user_id,
                                  !.book_id = IF book = NoBook THEN id ELSE book.id]
                          ELSE user_book, payload)},
     user_book |-> UserBookWritten(
                          IF user_book = NoUserBook
                          THEN [NoUserBook EXCEPT
                                  !.id = IF book = NoBook THEN id + 1 ELSE id,
                                  !.user_id = user_id,
                                  !.book_id = IF book = NoBook THEN id ELSE book.id]
                          ELSE user_book, payload),
     created |-> user_book = NoUserBook,
     next_id |-> id + (IF book = NoBook THEN 1 ELSE 0)
                    + (IF user_book = NoUserBook THEN 1 ELSE 0)]

\* The call raised: nothing is written.
UpsertRaised(book_rows, ub_rows, id) ==
    [raised |-> TRUE, Book |-> book_rows, UserBook |-> ub_rows, user_book |-> NoUserBook,
     created |-> FALSE, next_id |-> id]

upsert_user_book(book_rows, ub_rows, id, user_id, payload, book) ==
    IF PayloadRaises(payload) THEN UpsertRaised(book_rows, ub_rows, id)
    ELSE UpsertInto(book_rows, ub_rows, id, user_id, payload, book,
                    UserBookOf(ub_rows, user_id, book.id))

(***************************************************************************)
(* db/service.py: loans.  A payload carries userBookId, borrowerName,      *)
(* status and returnedAt; friendId, the contact, the note and the other    *)
(* dates are absent from every payload.                                    *)
(***************************************************************************)
NoLoan ==
    [id |-> 0, user_id |-> 0, user_book_id |-> 0, borrower_name |-> Nil,
     status |-> "", returned_at |-> Nil]

\* Loan.status == "active" for the user-book, counted.
ActiveLoans(loan_rows, user_book_id) ==
    {l \in loan_rows : l.user_book_id = user_book_id /\ l.status = "active"}

\* The rule with every loan counted, whatever its status.
SyncCountingEveryLoan(ub_rows, loan_rows, user_book_id) ==
    {IF ub.id = user_book_id
     THEN [ub EXCEPT !.loaned = \E l \in loan_rows : l.user_book_id = user_book_id]
     ELSE ub : ub \in ub_rows}

\* _sync_book_loaned_state: the user_books rows afterwards.
_sync_book_loaned_state(ub_rows, loan_rows, user_book_id) ==
    {IF ub.id = user_book_id
     THEN [ub EXCEPT !.loaned = Cardinality(ActiveLoans(loan_rows, user_book_id)) > 0]
     ELSE ub : ub \in ub_rows}

\* get_user_book and get_loan: the row of the user with the id, if any.
get_user_book(ub_rows, user_id, user_book_id) ==
    IF \E ub \in ub_rows : ub.user_id = user_id /\ ub.id = user_book_id
    THEN CHOOSE ub \in ub_rows : ub.user_id = user_id /\ ub.id = user_book_id
    ELSE NoUserBook

get_loan(loan_rows, user_id, loan_id) ==
    IF \E l \in loan_rows : l.user_id = user_id /\ l.id = loan_id
    THEN CHOOSE l \in loan_rows : l.user_id = user_id /\ l.id = loan_id
    ELSE NoLoan

\* The status create_loan stores.
CreatedStatus(payload) ==
    IF _parse_iso_datetime(payload.returnedAt) # Nil THEN "returned"
    ELSE _status_or_default(payload.status, ALLOWED_LOAN_STATUSES, "active")

\* The ValueError of create_loan, "" if it raises none.
CreateLoanError(ub_rows, user_id, payload) ==
    IF payload.userBookId = 0 THEN "missing_user_book_id"
    ELSE IF get_user_book(ub_rows, user_id, payload.userBookId) = NoUserBook
    THEN "user_book_not_found"
    ELSE IF _as_string_or_none(payload.borrowerName) = Nil THEN "missing_borrower_name"
    ELSE ""

NewLoan(id, user_id, payload) ==
    [id |-> id, user_id |-> user_id, user_book_id |-> payload.userBookId,
     borrower_name |-> _as_string_or_none(payload.borrowerName),
     status |-> CreatedStatus(payload),
     returned_at |-> _parse_iso_datetime(payload.returnedAt)]

\* create_loan: the ValueError raised, or the tables afterwards.
create_loan(ub_rows, loan_rows, id, user_id, payload) ==
    IF CreateLoanError(ub_rows, user_id, payload) # ""
    THEN [error |-> CreateLoanError(ub_rows, user_id, payload), Loan |-> loan_rows,
          UserBook |-> ub_rows, id |-> 0, user_book_id |-> 0]
    ELSE [error |-> "", Loan |-> loan_rows \cup {NewLoan(id, user_id, payload)},
          UserBook |-> _sync_book_loaned_state(
                          ub_rows, loan_rows \cup {NewLoan(id, user_id, payload)},
                          payload.userBookId),
          id |-> id, user_book_id |-> payload.userBookId]

\* The status update_loan stores.
UpdatedStatus(loan, payload) ==
    IF _parse_iso_datetime(payload.returnedAt) # Nil THEN "returned"
    ELSE _status_or_default(payload.status, ALLOWED_LOAN_STATUSES,
                            IF loan.status = "" THEN "active" ELSE loan.status)

\* The returned_at update_loan stores, given the status it stores.
UpdatedReturnedAt(loan, payload, status) ==
    IF status = "active" THEN Nil
    ELSE IF _parse_iso_datetime(payload.returnedAt) # Nil
    THEN _parse_iso_datetime(payload.returnedAt)
    ELSE IF loan.returned_at = Nil THEN UtcNow
    ELSE loan.returned_at

LoanUpdated(loan, payload) ==
    [loan EXCEPT
        !.borrower_name = IF _as_string_or_none(payload.borrowerName) # Nil
                          THEN _as_string_or_none(payload.borrowerName)
                          ELSE loan.borrower_name,
        !.status = UpdatedStatus(loan, payload),
        !.returned_at = UpdatedReturnedAt(loan, payload, UpdatedStatus(loan, payload))]

\* update_loan: the tables afterwards.
update_loan(ub_rows, loan_rows, loan, payload) ==
    [Loan |-> (loan_rows \ {loan}) \cup {LoanUpdated(loan, payload)},
     UserBook |-> _sync_book_loaned_state(
                     ub_rows, (loan_rows \ {loan}) \cup {LoanUpdated(loan, payload)},
                     loan.user_book_id),
     user_book_id |-> loan.user_book_id]

\* delete_my_loan's try block: the session deletes the loan, the count
\* query flushes the deletion (autoflush) and the flag is assigned.
DeleteLoan(ub_rows, loan_rows, loan) ==
    [Loan |-> loan_rows \ {loan},
     UserBook |-> {IF ub.id = loan.user_book_id
                   THEN [ub EXCEPT !.loaned =
                           Cardinality(ActiveLoans(loan_rows \ {loan}, loan.user_book_id)) > 0]
                   ELSE ub : ub \in ub_rows},
     user_book_id |-> loan.user_book_id]

(***************************************************************************)
(* routes/library.py: the handlers, one action each.  A handler commits    *)
(* what it and _current_user wrote, or rolls all of it back.               *)
(***************************************************************************)
\* Most upsert_user_book calls in a run.
MaxUpserts == 3

\* Most rows created in a run before a loan is created.
MaxRows == 5

LibResponse(op, header_email, status, error, id, created) ==
    [op |-> op, email |-> header_email, status |-> status, error |-> error, id |-> id,
     created |-> created, user_book_id |-> 0]

\* The handler answers without a commit, or after a rollback.
Answer(op, header_email, status, error) ==
    /\ lib_response' = LibResponse(op, header_email, status, error, 0, FALSE)
    /\ UNCHANGED <<app, Friend, friend_payload, User, Book, UserBook, Loan, next_id, upsert_log>>

\* The errorhandler of MissingIdentityError.
_handle_missing_identity(op, header_email) ==
    Answer(op, header_email, 401, "missing_identity")

Identity(header_email) == _effective_dev_identity(header_email, app.fallback)

\* _current_user, for a request with an identity.
_current_user(header_email) ==
    get_or_create_dev_user(User, next_id, Identity(header_email), DevUserUsername)

\* GET /library/me/profile
get_my_profile(header_email) ==
    /\ app.state = "running"
    /\ IF Identity(header_email) = Nil
       THEN _handle_missing_identity("get_my_profile", header_email)
       ELSE /\ User' = _current_user(header_email).rows
            /\ next_id' = next_id + _current_user(header_email).created
            /\ lib_response' = LibResponse("get_my_profile", header_email, 200, "",
                                           _current_user(header_email).user.id, FALSE)
            /\ UNCHANGED <<app, Friend, friend_payload, Book, UserBook, Loan, upsert_log>>

\* What upsert_log keeps of a call that returned.
UpsertRecord(user_id, payload, r) ==
    [user_id |-> user_id, payload |-> payload, created |-> r.created,
     user_book |-> r.user_book]

\* POST /library/me/books, from the call of upsert_user_book on.
AddMyBookWritten(header_email, payload, cu, r) ==
    IF r.raised
    THEN Answer("add_my_book", header_email, 500, "write_failed")
    ELSE /\ User' = cu.rows
         /\ Book' = r.Book
         /\ UserBook' = r.UserBook
         /\ next_id' = r.next_id
         /\ upsert_log' = Append(upsert_log, UpsertRecord(cu.user.id, payload, r))
         /\ lib_response' = LibResponse("add_my_book", header_email,
                                        IF r.created THEN 201 ELSE 200, "",
                                        r.user_book.id, r.created)
         /\ UNCHANGED <<app, Friend, friend_payload, Loan>>

AddMyBookAs(header_email, payload, cu) ==
    \E book \in _find_book_for_payload(Book, payload) :
        AddMyBookWritten(header_email, payload, cu,
                         upsert_user_book(Book, UserBook, next_id + cu.created, cu.user.id,
                                          payload, book))

\* POST /library/me/books
add_my_book(header_email, payload) ==
    /\ app.state = "running"
    /\ Len(upsert_log) < MaxUpserts
    /\ IF Strip(OrEmpty(payload.title)) = ""
       THEN Answer("add_my_book", header_email, 400, "missing_title")
       ELSE IF Identity(header_email) = Nil
       THEN _handle_missing_identity("add_my_book", header_email)
       ELSE AddMyBookAs(header_email, payload, _current_user(header_email))

\* The loop of upsert_my_books_batch from item i on: the states it can end
\* in.  st holds the tables, the log, the count of written items, raised.
BatchItemWritten(st, user_id, payload, r) ==
    IF r.raised THEN [st EXCEPT !.raised = TRUE]
    ELSE [st EXCEPT !.Book = r.Book, !.UserBook = r.UserBook, !.next_id = r.next_id,
                    !.log = Append(st.log, UpsertRecord(user_id, payload, r)),
                    !.count = st.count + 1]

BatchItem(st, user_id, payload) ==
    IF st.raised \/ Strip(OrEmpty(payload.title)) = "" THEN {st}
    ELSE {BatchItemWritten(st, user_id, payload,
                           upsert_user_book(st.Book, st.UserBook, st.next_id, user_id,
                                            payload, book)) :
            book \in _find_book_for_payload(st.Book, payload)}

RECURSIVE BatchFrom(_, _, _, _)
BatchFrom(sts, user_id, items, i) ==
    IF i > Len(items) THEN sts
    ELSE BatchFrom(UNION {BatchItem(st, user_id, items[i]) : st \in sts}, user_id, items, i + 1)

BatchWritten(header_email, cu, st) ==
    IF st.raised
    THEN Answer("upsert_my_books_batch", header_email, 500, "write_failed")
    ELSE /\ User' = cu.rows
         /\ Book' = st.Book
         /\ UserBook' = st.UserBook
         /\ next_id' = st.next_id
         /\ upsert_log' = st.log
         /\ lib_response' = LibResponse("upsert_my_books_batch", header_email, 200, "",
                                        st.count, FALSE)
         /\ UNCHANGED <<app, Friend, friend_payload, Loan>>

BatchAs(header_email, items, cu) ==
    \E st \in BatchFrom({[Book |-> Book, UserBook |-> UserBook,
                          next_id |-> next_id + cu.created, log |-> upsert_log,
                          count |-> 0, raised |-> FALSE]}, cu.user.id, items, 1) :
        BatchWritten(header_email, cu, st)

\* POST /library/me/books/batch; items is the list under "items".
upsert_my_books_batch(header_email, items) ==
    /\ app.state = "running"
    /\ Len(upsert_log) + Len(items) <= MaxUpserts
    /\ IF Identity(header_email) = Nil
       THEN _handle_missing_identity("upsert_my_books_batch", header_email)
       ELSE BatchAs(header_email, items, _current_user(header_email))

\* POST /library/me/loans, from the call of create_loan on.
AddMyLoanWritten(header_email, cu, r) ==
    IF r.error # ""
    THEN Answer("add_my_loan", header_email, 400, r.error)
    ELSE /\ User' = cu.rows
         /\ Loan' = r.Loan
         /\ UserBook' = r.UserBook
         /\ next_id' = next_id + cu.created + 1
         /\ lib_response' = [LibResponse("add_my_loan", header_email, 201, "", r.id, TRUE)
                               EXCEPT !.user_book_id = r.user_book_id]
         /\ UNCHANGED <<app, Friend, friend_payload, Book, upsert_log>>

AddMyLoanAs(header_email, payload, cu) ==
    AddMyLoanWritten(header_email, cu,
                     create_loan(UserBook, Loan, next_id + cu.created, cu.user.id, payload))

\* POST /library/me/loans
add_my_loan(header_email, payload) ==
    /\ app.state = "running"
    /\ next_id <= MaxRows
    /\ IF Identity(header_email) = Nil
       THEN _handle_missing_identity("add_my_loan", header_email)
       ELSE AddMyLoanAs(header_email, payload, _current_user(header_email))

\* The handler found no row of the user: it commits and answers 404.
NotFound(op, header_email, cu) ==
    /\ User' = cu.rows
    /\ next_id' = next_id + cu.created
    /\ lib_response' = LibResponse(op, header_email, 404, "not_found", 0, FALSE)
    /\ UNCHANGED <<app, Friend, friend_payload, Book, UserBook, Loan, upsert_log>>

PatchMyLoanWritten(header_email, loan_id, cu, r) ==
    /\ User' = cu.rows
    /\ Loan' = r.Loan
    /\ UserBook' = r.UserBook
    /\ next_id' = next_id + cu.created
    /\ lib_response' = [LibResponse("patch_my_loan", header_email, 200, "", loan_id, FALSE)
                          EXCEPT !.user_book_id = r.user_book_id]
    /\ UNCHANGED <<app, Friend, friend_payload, Book, upsert_log>>

PatchMyLoanAs(header_email, loan_id, payload, cu) ==
    IF get_loan(Loan, cu.user.id, loan_id) = NoLoan
    THEN NotFound("patch_my_loan", header_email, cu)
    ELSE PatchMyLoanWritten(header_email, loan_id, cu,
                            update_loan(UserBook, Loan, get_loan(Loan, cu.user.id, loan_id),
                                        payload))

\* PATCH /library/me/loans/<loan_id>
patch_my_loan(header_email, loan_id, payload) ==
    /\ app.state = "running"
    /\ IF Identity(header_email) = Nil
       THEN _handle_missing_identity("patch_my_loan", header_email)
       ELSE PatchMyLoanAs(header_email, loan_id, payload, _current_user(header_email))

DeleteMyLoanWritten(header_email, loan_id, cu, r) ==
    /\ User' = cu.rows
    /\ Loan' = r.Loan
    /\ UserBook' = r.UserBook
    /\ next_id' = next_id + cu.created
    /\ lib_response' = [LibResponse("delete_my_loan", header_email, 200, "", loan_id, FALSE)
                          EXCEPT !.user_book_id = r.user_book_id]
    /\ UNCHANGED <<app, Friend, friend_payload, Book, upsert_log>>

DeleteMyLoanAs(header_email, loan_id, cu) ==
    IF get_loan(Loan, cu.user.id, loan_id) = NoLoan
    THEN NotFound("delete_my_loan", header_email, cu)
    ELSE DeleteMyLoanWritten(header_email, loan_id, cu,
                             DeleteLoan(UserBook, Loan, get_loan(Loan, cu.user.id, loan_id)))

\* DELETE /library/me/loans/<loan_id>
delete_my_loan(header_email, loan_id) ==
    /\ app.state = "running"
    /\ IF Identity(header_email) = Nil
       THEN _handle_missing_identity("delete_my_loan", header_email)
       ELSE DeleteMyLoanAs(header_email, loan_id, _current_user(header_email))

(***************************************************************************)
(* db/service.py: what GET /library/me/books returns.  The items are held  *)
(* as a set: created_at, which orders them, is not modelled.               *)
(***************************************************************************)
BookOf(book_rows, user_book) == CHOOSE b \in book_rows : b.id = user_book.book_id

serialize_user_book(user_book, book) ==
    [id |-> user_book.id,
     title |-> book.title,
     author |-> IF book.primary_author = Nil THEN "Unknown author" ELSE book.primary_author,
     publishedYear |-> book.published_year,
     rating |-> user_book.rating,
     loaned |-> user_book.loaned,
     source |-> user_book.source,
     googleBooksId |-> book.google_books_id]

list_user_books(ub_rows, user_id) == {ub \in ub_rows : ub.user_id = user_id}

\* The items of list_my_books for the user.
list_my_books(book_rows, ub_rows, user_id) ==
    {serialize_user_book(ub, BookOf(book_rows, ub)) : ub \in list_user_books(ub_rows, user_id)}

(***************************************************************************)
(* db/service.py, routes/library.py: friends.  A payload value of Nil (0   *)
(* for friendUserId) is a key the payload lacks: payload.get gives None.   *)
(***************************************************************************)
ALLOWED_FRIEND_STATUSES == {"active", "blocked"}

NoFriend ==
    [id |-> 0, user_id |-> 0, name |-> Nil, email |-> Nil, avatar_url |-> Nil,
     status |-> Nil, friend_user_id |-> 0]

\* session.query(Friend).filter(user_id, id).one_or_none()
FriendOf(rows, user_id, friend_id) ==
    IF \E f \in rows : f.user_id = user_id /\ f.id = friend_id
    THEN CHOOSE f \in rows : f.user_id = user_id /\ f.id = friend_id
    ELSE NoFriend

get_friend(rows, user_id, friend_id) == FriendOf(rows, user_id, friend_id)

\* The query by name, and by email when the payload has one.
FriendNamed(rows, user_id, name, email) ==
    {f \in rows : f.user_id = user_id /\ f.name = name /\ (email # Nil => f.email = email)}

\* Friend(user_id=user.id, name="Pending"): the column default of status
\* is applied at the flush, after friend.status or "active" was read.
PendingFriend(id, user_id) ==
    [NoFriend EXCEPT !.id = id, !.user_id = user_id, !.name = "Pending"]

\* The assignments to friend.name, email, avatar_url and status, and to
\* friend_user_id when the payload gives one.
FriendWritten(friend, payload) ==
    [friend EXCEPT
        !.name = IF _as_string_or_none(payload.name) # Nil
                 THEN _as_string_or_none(payload.name) ELSE friend.name,
        !.email = _as_string_or_none(payload.email),
        !.avatar_url = _as_string_or_none(payload.avatarUrl),
        !.status = _status_or_default(payload.status, ALLOWED_FRIEND_STATUSES,
                                      IF friend.status = Nil THEN "active"
                                      ELSE friend.status),
        !.friend_user_id = IF payload.friendUserId # 0 THEN payload.friendUserId
                           ELSE friend.friend_user_id]

\* session.flush(): uq_friends_user_name refuses a second row of the user
\* with the name.
FriendFlushed(rows, friend, written, created) ==
    IF \E f \in rows : f.id # written.id /\ f.user_id = written.user_id /\ f.name = written.name
    THEN [error |-> "IntegrityError", Friend |-> rows, friend |-> NoFriend, created |-> FALSE]
    ELSE [error |-> "", Friend |-> (rows \ {friend}) \cup {written}, friend |-> written,
          created |-> created]

\* upsert_friend from created = friend is None on; friend is the row found,
\* or NoFriend.
UpsertFriendFound(rows, id, user_id, payload, friend) ==
    IF friend = NoFriend
    THEN FriendFlushed(rows, NoFriend, FriendWritten(PendingFriend(id, user_id), payload), TRUE)
    ELSE FriendFlushed(rows, friend, FriendWritten(friend, payload), FALSE)

\* The row the query by name finds (the unique constraint leaves at most
\* one per name).
FoundByName(rows, user_id, name, email) ==
    IF FriendNamed(rows, user_id, name, email) = {} THEN NoFriend
    ELSE CHOOSE f \in FriendNamed(rows, user_id, name, email) : TRUE

upsert_friend(rows, id, user_id, payload, existing) ==
    IF existing # NoFriend THEN UpsertFriendFound(rows, id, user_id, payload, existing)
    ELSE IF _as_string_or_none(payload.name) = Nil
    THEN [error |-> "missing_friend_name", Friend |-> rows, friend |-> NoFriend,
          created |-> FALSE]
    ELSE UpsertFriendFound(rows, id, user_id, payload,
                           FoundByName(rows, user_id, _as_string_or_none(payload.name),
                                       _as_string_or_none(payload.email)))

FriendAnswered(op, header_email, payload, cu, r, status) ==
    IF r.error = "missing_friend_name" THEN Answer(op, header_email, 400, r.error)
    ELSE IF r.error # "" THEN Answer(op, header_email, 500, "write_failed")
    ELSE /\ User' = cu.rows
         /\ Friend' = r.Friend
         /\ friend_payload' = payload
         /\ next_id' = next_id + cu.created + (IF r.created THEN 1 ELSE 0)
         /\ lib_response' = LibResponse(op, header_email, status, "", r.friend.id, r.created)
         /\ UNCHANGED <<app, Book, UserBook, Loan, upsert_log>>

AddMyFriendWritten(header_email, payload, cu, r) ==
    FriendAnswered("add_my_friend", header_email, payload, cu, r,
                   IF r.created THEN 201 ELSE 200)

AddMyFriendAs(header_email, payload, cu) ==
    AddMyFriendWritten(header_email, payload, cu,
                       upsert_friend(Friend, next_id + cu.created, cu.user.id, payload,
                                     NoFriend))

\* POST /library/me/friends
add_my_friend(header_email, payload) ==
    /\ app.state = "running"
    /\ next_id <= MaxRows
    /\ IF Identity(header_email) = Nil
       THEN _handle_missing_identity("add_my_friend", header_email)
       ELSE AddMyFriendAs(header_email, payload, _current_user(header_email))

PatchMyFriendAs(header_email, friend_id, payload, cu) ==
    IF get_friend(Friend, cu.user.id, friend_id) = NoFriend
    THEN NotFound("patch_my_friend", header_email, cu)
    ELSE FriendAnswered("patch_my_friend", header_email, payload, cu,
                        upsert_friend(Friend, next_id + cu.created, cu.user.id, payload,
                                      get_friend(Friend, cu.user.id, friend_id)),
                        200)

\* PATCH /library/me/friends/<friend_id>
patch_my_friend(header_email, friend_id, payload) ==
    /\ app.state = "running"
    /\ IF Identity(header_email) = Nil
       THEN _handle_missing_identity("patch_my_friend", header_email)
       ELSE PatchMyFriendAs(header_email, friend_id, payload, _current_user(header_email))

(***************************************************************************)
(* Inputs of the library scenarios.                                        *)
(***************************************************************************)
\* X-Bookshelf-User-Email: absent, and an address to strip and lower.
HeaderEmails == {Nil, " Ann@x.io "}

\* The configuration create_app validates: development always has a
\* database URL (build_settings_from_env supplies one).
Config(env, fallback, database_url) ==
    [env |-> env, fallback |-> fallback, database_url |-> database_url]

Configs ==
    {Config("development", f, "sqlite:///:memory:") : f \in BOOLEAN}
    \cup {Config("production", f, url) : f \in BOOLEAN, url \in {"", "sqlite:///:memory:"}}
    \cup {Config("Production", TRUE, "sqlite:///:memory:")}

BookPayload(title, author, year, book_id, rating, source, loaned) ==
    [title |-> title, author |-> author, publishedYear |-> year, googleBooksId |-> book_id,
     rating |-> rating, source |-> source, loaned |-> loaned]

\* The headers of the scenarios with two users: the fallback identity and
\* one address.
TwoUsers == {Nil, "ann@x.io"}

\* The header of the scenario with one user, the fallback identity.
OneUser == {Nil}

\* The payloads of the loan scenario: one book, marked by the client as
\* loaned or as not loaned.
ShelfPayloads ==
    {BookPayload("Dune", "Frank Herbert", 1965, "g1", NoRating, Nil, PyTrue),
     BookPayload("Dune", "Frank Herbert", 1965, "g1", NoRating, Nil, PyFalse)}

\* The payloads of the identity scenario: one book, and one without title.
OnePayload ==
    {BookPayload("Dune", "Frank Herbert", 1965, "g1", NoRating, Nil, Nil),
     BookPayload(" ", Nil, NoYear, "g1", NoRating, Nil, Nil)}

\* The payloads of the upsert scenario.
BookPayloads ==
    {BookPayload("Dune", "Frank Herbert", 1965, "g1", RatingNumber(4500), "manual", Nil),
     BookPayload("Dune", Nil, NoYear, "g1", NoRating, Nil, Nil),
     BookPayload("Emma", Nil, NoYear, " g1 ", RatingNumber(7000), "import", Nil),
     BookPayload("DUNE ", Nil, 4000, "g1", RatingText, " ", Nil),
     BookPayload("Dune", Nil, NoYear, "g1", RatingNumber(3456), NotAString, Nil),
     BookPayload("Dune", "Frank Herbert", NoYear, Nil, RatingNumber(-1000), Nil, "yes"),
     BookPayload("Emma", Nil, 1815, " ", NoRating, "import", PyFalse)}

\* The lists posted to /library/me/books/batch.
BatchLists(payloads) ==
    {<<p>> : p \in payloads} \cup {<<p, q>> : p \in payloads, q \in payloads}

LoanPayload(user_book_id, borrower, status, returned_at) ==
    [userBookId |-> user_book_id, borrowerName |-> borrower, status |-> status,
     returnedAt |-> returned_at]

\* The payloads of the loan scenario, userBookId apart.
LoanPayloads ==
    {LoanPayload(0, "Bo", Nil, Nil),
     LoanPayload(0, "Bo", "Returned ", Nil),
     LoanPayload(0, "Bo", "active", IsoDate),
     LoanPayload(0, Nil, "active", Nil),
     LoanPayload(0, " ", "lost", NotADate)}

\* The payloads of the identity scenario: a loan, and its return.
OneLoan == {LoanPayload(0, "Bo", Nil, Nil)}
OneReturn == {LoanPayload(0, Nil, "returned", Nil)}

\* The ids a client can name: those of the rows, and one of no row (0: the
\* key is absent).
UserBookIds == {ub.id : ub \in UserBook} \cup {0, next_id}
LoanIds == {l.id : l \in Loan} \cup {next_id}

(***************************************************************************)
(* The requests of a scenario, drawn from the headers and payloads it      *)
(* names.                                                                  *)
(***************************************************************************)
CreateApp ==
    /\ app.state = "none"
    /\ \E config \in Configs : app' = create_app(config)
    /\ UNCHANGED <<User, Book, UserBook, Loan, Friend, friend_payload, next_id, upsert_log,
                   lib_response>>

GetMyProfile(headers) == \E h \in headers : get_my_profile(h)

AddMyBook(headers, payloads) ==
    \E h \in headers : \E payload \in payloads : add_my_book(h, payload)

UpsertMyBooksBatch(headers, payloads) ==
    \E h \in headers : \E items \in BatchLists(payloads) : upsert_my_books_batch(h, items)

AddMyLoan(headers, payloads) ==
    \E h \in headers : \E id \in UserBookIds : \E payload \in payloads :
        add_my_loan(h, [payload EXCEPT !.userBookId = id])

PatchMyLoan(headers, payloads) ==
    \E h \in headers : \E id \in LoanIds : \E payload \in payloads :
        patch_my_loan(h, id, payload)

DeleteMyLoan(headers) == \E h \in headers : \E id \in LoanIds : delete_my_loan(h, id)

\* The tables are empty and nothing was requested.
EmptyLibrary ==
    /\ User = {}
    /\ Book = {}
    /\ UserBook = {}
    /\ Loan = {}
    /\ Friend = {}
    /\ friend_payload = NoFriendPayload
    /\ next_id = 1
    /\ upsert_log = <<>>
    /\ lib_response = NoLibResponse

\* The app of a development machine: the fallback identity is enabled.
DevelopmentApp == create_app(Config("development", TRUE, "sqlite:///:memory:"))

(***************************************************************************)
(* Identity: create_app with any configuration, then requests with and     *)
(* without the header.                                                     *)
(***************************************************************************)
IdentityInit ==
    /\ DetIdle
    /\ ExtIdle
    /\ ScanIdle
    /\ SvcIdle
    /\ app = NoApp
    /\ EmptyLibrary

IdentityNext ==
    \/ CreateApp /\ UNCHANGED <<detVars, extVars, scanVars, svcVars>>
    \/ GetMyProfile(HeaderEmails) /\ UNCHANGED <<detVars, extVars, scanVars, svcVars>>
    \/ AddMyBook(HeaderEmails, OnePayload) /\ UNCHANGED <<detVars, extVars, scanVars, svcVars>>
    \/ UpsertMyBooksBatch(HeaderEmails, OnePayload)
          /\ UNCHANGED <<detVars, extVars, scanVars, svcVars>>
    \/ AddMyLoan(HeaderEmails, OneLoan) /\ UNCHANGED <<detVars, extVars, scanVars, svcVars>>
    \/ PatchMyLoan(HeaderEmails, OneReturn) /\ UNCHANGED <<detVars, extVars, scanVars, svcVars>>
    \/ DeleteMyLoan(HeaderEmails) /\ UNCHANGED <<detVars, extVars, scanVars, svcVars>>

SpecIdentity == IdentityInit /\ [][IdentityNext]_vars

(***************************************************************************)
(* Loans: a development app, one user, a book and loans on it.             *)
(***************************************************************************)
LoansInit ==
    /\ DetIdle
    /\ ExtIdle
    /\ ScanIdle
    /\ SvcIdle
    /\ app = DevelopmentApp
    /\ EmptyLibrary

LoansNext ==
    \/ AddMyBook(OneUser, ShelfPayloads) /\ UNCHANGED <<detVars, extVars, scanVars, svcVars>>
    \/ AddMyLoan(OneUser, LoanPayloads) /\ UNCHANGED <<detVars, extVars, scanVars, svcVars>>
    \/ PatchMyLoan(OneUser, LoanPayloads) /\ UNCHANGED <<detVars, extVars, scanVars, svcVars>>
    \/ DeleteMyLoan(OneUser) /\ UNCHANGED <<detVars, extVars, scanVars, svcVars>>

SpecLoans == LoansInit /\ [][LoansNext]_vars

(***************************************************************************)
(* Friends: a development app, one user, friends added and patched.        *)
(***************************************************************************)
FriendPayload(name, email, avatar_url, status, friend_user_id) ==
    [name |-> name, email |-> email, avatarUrl |-> avatar_url, status |-> status,
     friendUserId |-> friend_user_id]

\* The payloads posted: two friends, and one without a name.
NewFriendPayloads ==
    {FriendPayload("Sarah", "s@x.io", "a.png", Nil, 0),
     FriendPayload("Sam", Nil, Nil, "Blocked", 0),
     FriendPayload(" ", "t@x.io", Nil, Nil, 0)}

\* The payloads patched: the status alone, the name alone, the email and
\* the linked user, the avatar with a status that is not allowed.
FriendPatches(user_ids) ==
    {FriendPayload(Nil, Nil, Nil, "blocked", 0),
     FriendPayload("Sam", Nil, Nil, Nil, 0),
     FriendPayload(Nil, Nil, "b.png", "paused", 0)}
        \cup {FriendPayload(Nil, "t@x.io", Nil, Nil, id) : id \in user_ids}

FriendIds == {f.id : f \in Friend} \cup {next_id}

AddMyFriend(headers, payloads) ==
    \E h \in headers : \E payload \in payloads : add_my_friend(h, payload)

PatchMyFriend(headers) ==
    \E h \in headers : \E id \in FriendIds :
        \E payload \in FriendPatches({u.id : u \in User}) : patch_my_friend(h, id, payload)

FriendsInit ==
    /\ DetIdle
    /\ ExtIdle
    /\ ScanIdle
    /\ SvcIdle
    /\ app = DevelopmentApp
    /\ EmptyLibrary

FriendsNext ==
    \/ AddMyFriend(OneUser, NewFriendPayloads) /\ UNCHANGED <<detVars, extVars, scanVars, svcVars>>
    \/ PatchMyFriend(OneUser) /\ UNCHANGED <<detVars, extVars, scanVars, svcVars>>

SpecFriends == FriendsInit /\ [][FriendsNext]_vars

(***************************************************************************)
(* upsert_user_book: a development app and a series of book requests.      *)
(***************************************************************************)
BooksInit ==
    /\ DetIdle
    /\ ExtIdle
    /\ ScanIdle
    /\ SvcIdle
    /\ app = DevelopmentApp
    /\ EmptyLibrary

BooksNext ==
    \/ AddMyBook(TwoUsers, BookPayloads) /\ UNCHANGED <<detVars, extVars, scanVars, svcVars>>
    \/ UpsertMyBooksBatch(TwoUsers, BookPayloads)
          /\ UNCHANGED <<detVars, extVars, scanVars, svcVars>>

SpecBooks == BooksInit /\ [][BooksNext]_vars

(***************************************************************************)
(* Claims about the detector.                                              *)
(***************************************************************************)
Count(s, x) == Cardinality({i \in 1..Len(s) : s[i] = x})

Range(s) == {s[i] : i \in 1..Len(s)}

IsPermutation(s, t) ==
    /\ Len(s) = Len(t)
    /\ \A x \in Range(s) \cup Range(t) : Count(s, x) = Count(t, x)

PosIn(s, x) == CHOOSE i \in 1..Len(s) : s[i] = x

\* C5: _sort_reading_order is idempotent: sorting its own output returns the
\* detections in the same order, also when detections share x1 or row bands
\* overlap.
C5_SortIdempotent ==
    dpc = "resorted" => sorted2 = sorted1

\* C6: the output is laid out row by row: the rows the algorithm built come in
\* non-decreasing order of their minimum y1, no two rows interleave, and
\* inside a row x1 is non-decreasing, whatever the order of the input.
C6_RowLayout ==
    dpc \in {"sorted", "resorted"} =>
        LET rows == GroupedRows(detections)
            rws  == 1..Len(rows)
            pos(d) == PosIn(sorted1, d)
        IN  /\ \A r \in rws : \A d \in Range(rows[r]) : d \in Range(sorted1)
            /\ \A r1, r2 \in rws :
                  r1 # r2 =>
                    \/ /\ row_top(rows[r1]) <= row_top(rows[r2])
                       /\ \A a \in Range(rows[r1]), b \in Range(rows[r2]) : pos(a) < pos(b)
                    \/ /\ row_top(rows[r2]) <= row_top(rows[r1])
                       /\ \A a \in Range(rows[r1]), b \in Range(rows[r2]) : pos(b) < pos(a)
            /\ \A r \in rws : \A a, b \in Range(rows[r]) :
                  pos(a) < pos(b) => a.bbox[1] <= b.bbox[1]

\* C6 witness: two rows, one of them with two members given right to left,
\* and the lower row first in the input.
C6_Witness ==
    /\ dpc = "sorted"
    /\ Len(detections) = 3
    /\ Len(GroupedRows(detections)) = 2
    /\ detections[1].bbox[2] > detections[2].bbox[2]
    /\ detections[2].bbox[1] > detections[3].bbox[1]
    /\ detections[2].bbox[2] = detections[3].bbox[2]
    /\ detections[2].bbox[4] = detections[3].bbox[4]
    /\ sorted1 = <<detections[3], detections[2], detections[1]>>

\* C7: _sort_reading_order returns a permutation of its input, every
\* detection once and unchanged, leaves the input list as it was, and maps
\* the empty list to the empty list.
C7_Permutation ==
    [][(dpc = "sort_ready" /\ dpc' = "sorted") =>
          /\ detections' = detections
          /\ IsPermutation(sorted1', detections)
          /\ (detections = <<>> => sorted1' = <<>>)]_vars

\* C7 witness: a list of three that the sort reorders.
C7_Witness ==
    /\ dpc = "sorted"
    /\ Len(detections) = 3
    /\ sorted1 # detections
    /\ Len(sorted1) = 3

\* C8: for max_detections >= 0, detect_all returns the first max_detections
\* elements of the reading order of the detections whose area is >= min_area,
\* the crops in the same order, and the i-th detection has index i.
C8_DetectAll ==
    (dpc = "detected" /\ max_detections >= 0) =>
        LET all     == [i \in 1..Len(raw) |->
                          DetectedSpine(BoxToBbox(raw[i].xyxy), raw[i].conf, i - 1)]
            kept    == SelectSeq(all, LAMBDA d : area(d) >= min_area)
            ordered == _sort_reading_order(kept)
            n       == IF max_detections < Len(ordered) THEN max_detections ELSE Len(ordered)
        IN  /\ Len(spines_out) = n
            /\ Len(crops_out) = n
            /\ \A i \in 1..n :
                  /\ spines_out[i].bbox = ordered[i].bbox
                  /\ spines_out[i].confidence = ordered[i].confidence
                  /\ spines_out[i].index = i - 1
                  /\ crops_out[i].region = ordered[i].bbox

\* C8 witness: three boxes, one filtered out by area, the other two in an
\* order the sort changes, one of them cut off by max_detections, and the one
\* kept is the less confident of the two.
C8_Witness ==
    /\ dpc = "detected"
    /\ Len(raw) = 3
    /\ max_detections = 1
    /\ min_area = 2
    /\ Len(spines_out) = 1
    /\ \E i, j \in 1..3 :
          /\ i < j
          /\ spines_out[1].bbox = BoxToBbox(raw[j].xyxy)
          /\ spines_out[1].confidence = raw[j].conf
          /\ raw[i].conf > raw[j].conf
          /\ (BoxToBbox(raw[i].xyxy)[4] - BoxToBbox(raw[i].xyxy)[2]) >= 2

(***************************************************************************)
(* Claims about the extractor.                                             *)
(***************************************************************************)
\* C1: for every response string, _parse_response returns a SpineExtraction
\* and never raises.
C1_NeverRaises ==
    ppc = "parsed" => ~parsed.raised

\* The cascade as eight stages: what stage k yields for the stripped response
\* r, Raised when stage k does not succeed.  Stage 6 succeeds when the regex
\* matches and the value it found makes a valid title.
StageYield(r, k) ==
    LET fromMatch(m) == IF m = <<>> THEN Raised("no match") ELSE TryJson(m[1], k)
        lines == StrippedLines(r)
        first == IF lines = <<>> THEN <<>>
                 ELSE Truncate(strip(WithoutStructural(lines[1])), FirstLineLimit)
        found == QuotedValueMatch(r, W_title)
        author == IF AuthorNullMatch(r) \/ QuotedValueMatch(r, W_author) = <<>> THEN Null
                  ELSE Str(QuotedValueMatch(r, W_author)[1])
    IN  CASE k = 1 -> IF r = <<>> THEN Returned(NoTextDetected, None, 1) ELSE Raised("not empty")
          [] k = 2 -> TryJson(r, 2)
          [] k = 3 -> fromMatch(FencedJsonMatch(r))
          [] k = 4 -> fromMatch(FencedMatch(r))
          [] k = 5 -> fromMatch(BraceMatch(r))
          [] k = 6 -> IF found = <<>> THEN Raised("no match")
                      ELSE SpineExtraction(Str(found[1]), author, 6)
          [] k = 7 -> IF first = <<>> THEN Raised("no first line")
                      ELSE Returned(JoinSplit(first), None, 7)
          [] k = 8 -> Returned(CouldNotParse, None, 8)

FirstSucceedingStage(r) == Min({k \in 1..8 : ~StageYield(r, k).raised})

\* C9: for every response string, _parse_response returns the result of the
\* first of the eight stages that succeeds, in the fixed order.
C9_FirstStageWins ==
    ppc = "parsed" =>
        parsed = StageYield(strip(response_in), FirstSucceedingStage(strip(response_in)))

\* A title or author as the model keeps it: no whitespace at either end and
\* no two whitespace characters in a row.
Normalized(s) ==
    /\ s # <<>>
    /\ ~IsSpace(s[1])
    /\ ~IsSpace(s[Len(s)])
    /\ \A i \in 1..(Len(s) - 1) : ~(IsSpace(s[i]) /\ IsSpace(s[i + 1]))

IsSentinel(s) == s \in {NoTextDetected, CouldNotParse, ExtractionFailed}

\* C10: every SpineExtraction that extract or _parse_response returns has a
\* title that is non-empty, at most 500 characters long and normalized; its
\* author is None or a non-empty normalized string; and when no title was
\* read (empty response, nothing parsable, backend failure) the title is a
\* sentinel.
C10_WellFormed ==
    (ppc \in {"parsed", "extracted"} /\ ~parsed.raised) =>
        /\ Normalized(parsed.title)
        /\ StrLen(parsed.title) >= 1
        /\ StrLen(parsed.title) <= 500
        /\ parsed.author # None => Normalized(parsed.author)
        /\ parsed.stage \in {0, 1, 8} => IsSentinel(parsed.title)

\* C10 witness: extract on an object whose title holds a double space and
\* whose author is whitespace only.
C10_Witness ==
    /\ ppc = "extracted"
    /\ response_in = Object(Quoted(<<LetterA, SP, SP, LetterB>>), Quoted(<<SP>>))
    /\ ~parsed.raised
    /\ parsed.title = <<LetterA, SP, LetterB>>
    /\ parsed.author = None

\* C11: whenever the backend's extract call raises, BookExtractor.extract
\* raises nothing and returns a SpineExtraction with the title
\* "[Extraction Failed]", author None, confidence 0.0 and a raw_response made
\* of the type of the exception, a colon, a space and its message.
C11_BackendFailureAbsorbed ==
    (ppc = "extracted" /\ backend.raised) =>
        /\ ~parsed.raised
        /\ parsed.title =
              <<LBRACK, <<"Extraction", 10>>, SP, <<"Failed", 6>>, RBRACK>>
        /\ parsed.author = None
        /\ parsed.confidence = 0
        /\ parsed.raw_response = <<backend.exc.type, COLON, SP, backend.exc.msg>>

\* C11 witness: the backend raised ValueError("bad image") and extract
\* returned.
C11_Witness ==
    /\ ppc = "extracted"
    /\ backend.raised
    /\ backend.exc.type = <<"ValueError", 10>>
    /\ ~parsed.raised
    /\ parsed.raw_response # None

\* The confidence a backend dict reports, in tenths: the number under
\* "confidence", else under "score", else under "probability"; a key that is
\* missing or holds zero reports nothing.
ReportedConfidence(d) ==
    IF d.confidence \notin {NoNumber, <<0>>} THEN d.confidence[1]
    ELSE IF d.score \notin {NoNumber, <<0>>} THEN d.score[1]
    ELSE IF d.probability \notin {NoNumber, <<0>>} THEN d.probability[1]
    ELSE 0

\* The stages of _parse_response: 1 empty, 2 whole text as JSON, 3-5 the
\* fenced and braced payloads, 6 the quoted fragments, 7 first line, 8 none.
ParseStages == 1..8

EntriesOf(list, j) == {k \in 1..Len(list) : list[k].spineIndex = spines[j].index}

\* C2: whatever the vision backend does for each spine (raise, or return any
\* answer), the request ends with a 200 response that holds an entry for every
\* detected spine that was not dropped as a duplicate, and a spine whose
\* backend raised appears with the title "[Extraction Failed]".
C2_ExtractionFailuresAbsorbed ==
    (spc = "done" /\ request.route = "/scan/capture" /\ "detect_all" \in calls) =>
        /\ http_response.status = 200
        /\ Len(trace) = Len(spines)
        /\ \A j \in 1..Len(trace) :
              ~trace[j].dropped =>
                  /\ EntriesOf(http_response.spines, j) # {}
                  /\ trace[j].backend.raised =>
                        \A k \in EntriesOf(http_response.spines, j) :
                            http_response.spines[k].extraction.title = ExtractionFailed

\* C3: when books_client.lookup raised for a spine of the request, the
\* response is still 200 with an entry for every spine that is no duplicate;
\* the entry of the spine whose lookup raised carries the error
\* "<ExceptionType>: <message>" and no items, and every entry is what its own
\* extraction and its own lookup make it.
C3_LookupFailureIsolated ==
    (spc = "done" /\ \E j \in 1..Len(trace) : trace[j].lookup = "raised") =>
        /\ http_response.status = 200
        /\ Len(trace) = Len(spines)
        /\ \A j \in 1..Len(trace) :
              ~trace[j].dropped =>
                  /\ EntriesOf(http_response.spines, j) # {}
                  /\ \A k \in EntriesOf(http_response.spines, j) :
                        /\ http_response.spines[k] =
                              SpineResult(spines[j], trace[j].extraction,
                                          LookupOf(strip(trace[j].extraction.title),
                                                   has_books_key, max_lookup_results,
                                                   trace[j].lo))
                        /\ trace[j].lookup = "raised" =>
                              /\ http_response.spines[k].lookup.error = FormatExc(trace[j].lo.exc)
                              /\ http_response.spines[k].lookup.error # None
                              /\ http_response.spines[k].lookup.items = <<>>

\* The title lowercased and whitespace-collapsed.
TitleKey(t) == JoinSplit(lower(t))

\* The j-th spine of the request repeats an earlier one: its key is not
\* empty, does not start with "[" and is the key of an earlier spine.
Repeats(j) ==
    LET n == TitleKey(trace[j].extraction.title)
    IN  /\ n # <<>>
        /\ n[1] # LBRACK
        /\ \E i \in 1..(j - 1) : TitleKey(trace[i].extraction.title) = n

\* C4: within one request a spine with an extracted title is left out of the
\* spine list (and gets no catalog lookup) exactly when its title key repeats
\* that of an earlier spine of the same request; the 200 response carries
\* that list.  Titles of earlier requests play no part.
C4_DedupRule ==
    /\ \A j \in 1..Len(trace) :
          ~trace[j].extraction.raised =>
              /\ (EntriesOf(spine_results, j) = {}) <=> Repeats(j)
              /\ Repeats(j) => trace[j].lookup = "none"
    /\ http_response.status = 200 =>
          /\ http_response.spines = spine_results
          /\ Len(trace) = Len(spines)

\* C4 witness: a request after one that saw the title "a": its first spine
\* reads "a" and its lookup raises, the second reads "A" and is dropped, the
\* third has a sentinel title; the response holds the first and the third.
C4_Witness ==
    /\ spc = "done"
    /\ http_response.status = 200
    /\ <<LetterA>> \in earlier_titles
    /\ Len(trace) = 3
    /\ trace[1].extraction.title = <<LetterA>>
    /\ trace[1].lookup = "raised"
    /\ trace[2].extraction.title = <<UpperA>>
    /\ trace[2].dropped
    /\ trace[3].extraction.title = NoTextDetected
    /\ Len(http_response.spines) = 2
    /\ http_response.spines[1].spineIndex = 0
    /\ http_response.spines[2].spineIndex = 2

\* The cached catalog client exposes an api_key that is None or blank.
KeyMissing ==
    /\ _books_client # NoClient
    /\ _books_client.api_key # NoAttr
    /\ \/ _books_client.api_key = None
       \/ \A i \in 1..Len(_books_client.api_key) : IsSpace(_books_client.api_key[i])

\* The title of a spine entry is no sentinel: it is not empty and does not
\* start with "[".
NonSentinel(entry) ==
    /\ entry.extraction.title # <<>>
    /\ entry.extraction.title[1] # LBRACK

\* C13: while the catalog client exposes an api_key that is None or blank, no
\* request calls the catalog: /scan/capture never invokes lookup, and every
\* spine entry with a non-sentinel title carries an error that begins with
\* "missing_api_key:", totalItems 0 and no items; /books/search, once the
\* query and maxResults are accepted, never invokes search and answers 503
\* with the error "missing_api_key".
C13_NoCatalogCallWithoutKey ==
    (spc \in {"loop", "done"} /\ KeyMissing) =>
        /\ "lookup" \notin calls
        /\ "search" \notin calls
        /\ \A j \in 1..Len(trace) : trace[j].lookup = "none"
        /\ \A k \in 1..Len(spine_results) :
              NonSentinel(spine_results[k]) =>
                  /\ Len(spine_results[k].lookup.error) >= 2
                  /\ SubSeq(spine_results[k].lookup.error, 1, 2)
                        = << <<"missing_api_key", 15>>, COLON >>
                  /\ spine_results[k].lookup.totalItems = 0
                  /\ spine_results[k].lookup.items = <<>>
        /\ (request.route = "/scan/capture" /\ http_response.status = 200) =>
              /\ http_response.spines = spine_results
              /\ Len(spine_results) = Cardinality({j \in 1..Len(trace) : ~trace[j].dropped})
        /\ (/\ request.route = "/books/search"
            /\ spc = "done"
            /\ strip(request.q) # <<>>
            /\ request.form.int) =>
              /\ http_response.status = 503
              /\ http_response.error = << <<"missing_api_key", 15>> >>

\* C13 witness: the client holds a key of one blank; an earlier /scan/capture
\* of this process read the title "a", and now /books/search was refused with
\* 503 without a call of search.
C13_Witness ==
    /\ spc = "done"
    /\ request.route = "/books/search"
    /\ _books_client.api_key = <<SP>>
    /\ <<LetterA>> \in earlier_titles
    /\ "get_client" \in calls
    /\ "search" \notin calls
    /\ http_response.status = 503

\* C13, the case of /scan/capture (a reachable state as well): a 200 response
\* whose entry for the title "a" carries the missing-key error and whose
\* sentinel entry carries none.
C13_ScanCase ==
    /\ spc = "done"
    /\ request.route = "/scan/capture"
    /\ _books_client.api_key = None
    /\ http_response.status = 200
    /\ Len(http_response.spines) = 2
    /\ http_response.spines[1].extraction.title = <<LetterA>>
    /\ http_response.spines[1].lookup.error = MissingApiKeyError
    /\ http_response.spines[2].extraction.title = NoTextDetected
    /\ http_response.spines[2].lookup.error = None

\* The detector factory or the extractor factory raised in this request.
ModelFactoryRaised ==
    \/ "detector_factory raised" \in calls
    \/ "extractor_factory raised" \in calls

\* C14: when the detector factory or the extractor factory raises while
\* /scan/capture acquires them, the request ends at once with one 503 response
\* whose error is "model_unavailable" and which holds no spine entries, and
\* the request runs no detection, extraction or lookup.  A lookup failure, by
\* contrast, shows only as the error string of an entry of a 200 response:
\* no response but a 200 holds entries, and a request in which a lookup
\* raised never ends as "model_unavailable".
C14_ModelUnavailableIsFatal ==
    /\ (request.route = "/scan/capture" /\ ModelFactoryRaised) =>
          /\ spc = "done"
          /\ http_response.status = 503
          /\ http_response.error = << <<"model_unavailable", 17>> >>
          /\ http_response.spines = <<>>
          /\ http_response.count = 0
          /\ calls \cap {"get_client", "detect_all", "extract", "lookup"} = {}
          /\ trace = <<>>
          /\ spine_results = <<>>
    /\ http_response.status # 200 => http_response.spines = <<>>
    /\ (\E j \in 1..Len(trace) : trace[j].lookup = "raised") =>
          /\ http_response.status # 503
          /\ http_response.error # << <<"model_unavailable", 17>> >>
          /\ \A j \in 1..Len(trace) :
                trace[j].lookup = "raised" =>
                    \E k \in 1..Len(spine_results) :
                        /\ spine_results[k].spineIndex = spines[j].index
                        /\ spine_results[k].lookup.error =
                              <<trace[j].lo.exc.type, COLON, SP, trace[j].lo.exc.msg>>

\* C14 witness: the detector was built in this request, then the extractor
\* factory raised, and the request ended with 503.
C14_Witness ==
    /\ spc = "done"
    /\ request.route = "/scan/capture"
    /\ "detector_factory" \in calls
    /\ "detector_factory raised" \notin calls
    /\ "extractor_factory raised" \in calls
    /\ _detector # NotLoaded
    /\ _extractor = NotLoaded
    /\ http_response.status = 503

\* C15: a POST /scan/capture or POST /detect/spines made while scanning is
\* disabled, or without an "image" part, or with an empty filename, or with
\* bytes that are no image, is rejected with 503 "scan_disabled" or with 400,
\* and during that request no service is asked for its component, no factory
\* runs and no method of the detector, the extractor or the catalog client is
\* invoked.
C15_RejectedBeforePipeline ==
    (/\ spc \in {"loop", "done"}
     /\ request.route \in {"/scan/capture", "/detect/spines"}
     /\ (~request.enabled \/ request.upload # "ok")) =>
        /\ spc = "done"
        /\ IF ~request.enabled
           THEN /\ http_response.status = 503
                /\ http_response.error = << <<"scan_disabled", 13>> >>
           ELSE /\ http_response.status = 400
                /\ http_response.error[1][1] =
                      CASE request.upload = "missing" -> "missing_image_file"
                        [] request.upload = "empty" -> "empty_image_file"
                        [] request.upload = "undecodable" -> "invalid_image"
        /\ calls = {}
        /\ trace = <<>>
        /\ http_response.spines = <<>>
        /\ http_response.boxes = <<>>

\* C15 witness: earlier requests have cached the detector and the extractor;
\* a /scan/capture whose bytes are no image is answered 400 without a call.
C15_Witness ==
    /\ spc = "done"
    /\ request.route = "/scan/capture"
    /\ request.enabled
    /\ request.upload = "undecodable"
    /\ _detector # NotLoaded
    /\ _extractor # NotLoaded
    /\ http_response.status = 400
    /\ calls = {}

\* C16: in every /scan/capture response the items of each spine's lookup
\* number at most the maxLookupResults the client asked for, for every integer
\* asked for (0, negative values and values above 10 included).
C16_ItemsWithinRequested ==
    (request.route = "/scan/capture" /\ http_response.status = 200) =>
        \A k \in 1..Len(http_response.spines) :
            Len(http_response.spines[k].lookup.items) <= request.form.n

(***************************************************************************)
(* Claims about the services.                                              *)
(***************************************************************************)
\* The id of the instance a service holds; 0 when it holds none.
CachedId(service) ==
    IF service = "detector" THEN _detector.id
    ELSE IF service = "extractor" THEN _extractor.id
    ELSE _books_client.id

\* C17: for each of the three services, over any series of get calls: the
\* factory is invoked on a call exactly when no instance is cached; the call
\* on which the factory returns caches its instance, and every later call
\* returns that instance without invoking the factory; a call on which the
\* factory raises caches nothing, so that the next call invokes the factory
\* again.
C17_MemoizedGet ==
    \A s \in Services :
        LET mine  == {i \in 1..Len(gets) : gets[i].service = s}
            built == {i \in mine : gets[i].factory_called /\ ~gets[i].raised}
        IN  /\ \A i \in mine : gets[i].factory_called <=> (\A j \in built : j >= i)
            /\ \A i \in mine : gets[i].raised => gets[i].factory_called
            /\ \A i \in mine : \A j \in built :
                  i >= j => (gets[i].id = gets[j].id /\ ~gets[i].raised)
            /\ Cardinality(built) <= 1
            /\ (built = {}) <=> (CachedId(s) = 0)
            /\ \A j \in built : CachedId(s) = gets[j].id /\ gets[j].id > 0
            /\ factory_calls[s] = Cardinality({i \in mine : gets[i].factory_called})

\* C17 witness: the detector factory raised on the first call, built an
\* instance on the second, and the third call returned that instance without
\* the factory; the catalog client was then built by its first call.
C17_Witness ==
    /\ Len(gets) = 4
    /\ gets[1] = [service |-> "detector", factory_called |-> TRUE, raised |-> TRUE, id |-> 0]
    /\ gets[2] = [service |-> "detector", factory_called |-> TRUE, raised |-> FALSE, id |-> 2]
    /\ gets[3] = [service |-> "detector", factory_called |-> FALSE, raised |-> FALSE, id |-> 2]
    /\ gets[4].service = "books"
    /\ gets[4].id = 1
    /\ factory_calls["detector"] = 2
    /\ _detector.id = 2

(***************************************************************************)
(* Claims about the library.                                               *)
(***************************************************************************)
\* The last request was a loan operation that succeeded.
LoanOperations == {"add_my_loan", "patch_my_loan", "delete_my_loan"}

SuccessfulLoanOperation ==
    /\ lib_response.op \in LoanOperations
    /\ lib_response.status \in {200, 201}

\* C18: immediately after every successful loan operation (create_loan,
\* update_loan, or the DELETE of a loan) the loaned flag of the affected
\* user-book is true if and only if at least one loan with status "active"
\* exists for that user-book, whatever operations came before and however
\* many loans the book has.
C18_LoanedIffActiveLoan ==
    SuccessfulLoanOperation =>
        \E ub \in UserBook :
            /\ ub.id = lib_response.user_book_id
            /\ ub.loaned <=> (\E l \in Loan : l.user_book_id = ub.id /\ l.status = "active")

\* C18 witness: a user-book had two loans; the first was deleted, the second
\* is still active and the flag is still true.
C18_Witness ==
    /\ lib_response.op = "delete_my_loan"
    /\ lib_response.status = 200
    /\ \E ub \in UserBook :
          /\ ub.id = lib_response.user_book_id
          /\ ub.loaned
          /\ \E l \in Loan : l.user_book_id = ub.id /\ l.status = "active"
          /\ \E l \in Loan : l.id > lib_response.id

\* Every upsert_user_book call so far was made by one user with payloads
\* that carry one non-empty googleBooksId.
SameBookUpserted ==
    /\ upsert_log # <<>>
    /\ PayloadBookId(upsert_log[1].payload) # Nil
    /\ \A i \in 1..Len(upsert_log) :
          /\ upsert_log[i].user_id = upsert_log[1].user_id
          /\ PayloadBookId(upsert_log[i].payload) = PayloadBookId(upsert_log[1].payload)

\* The calls whose payload supplied a rating, and those that supplied a
\* source: a number, and a string that is not blank.
SuppliedRating == {i \in 1..Len(upsert_log) : upsert_log[i].payload.rating.k = "num"}

SuppliedSource ==
    {i \in 1..Len(upsert_log) : Strip(OrEmpty(upsert_log[i].payload.source)) # ""}

\* One Book and one UserBook of the user exist.
OneBookOneUserBook ==
    /\ Cardinality(Book) = 1
    /\ Cardinality({ub \in UserBook : ub.user_id = upsert_log[1].user_id}) = 1

\* The first call reported created, the later calls did not.
CreatedByFirstCallOnly == \A i \in 1..Len(upsert_log) : upsert_log[i].created <=> (i = 1)

\* The stored rating is the rating of the last payload that supplied one,
\* as _coerce_rating stores it.
LastRatingWins ==
    \A ub \in UserBook :
        IF SuppliedRating = {} THEN ub.rating = NoRating
        ELSE ub.rating = _coerce_rating(upsert_log[Max(SuppliedRating)].payload.rating)

\* The stored source is the source of the last payload that supplied one.
LastSourceWins ==
    \A ub \in UserBook :
        SuppliedSource # {} =>
            ub.source = Strip(upsert_log[Max(SuppliedSource)].payload.source)

\* C19: for any sequence of upsert_user_book calls by one user whose payloads
\* carry the same non-empty googleBooksId, exactly one Book and exactly one
\* UserBook of that user exist afterwards, the first call reports created =
\* true and every later call created = false, and the stored rating and
\* source are those of the last payload that supplied them.
C19_UpsertDedupesLastWriteWins ==
    SameBookUpserted =>
        /\ OneBookOneUserBook
        /\ CreatedByFirstCallOnly
        /\ LastRatingWins
        /\ LastSourceWins

\* create_app was called with BOOKSHELF_ENV production, in the next state.
ProductionNext == app'.state # "none" /\ NormalizedEnv(app'.env) = "production"

\* The step is a /library request without X-Bookshelf-User-Email.
HeaderlessRequestNext == lib_response'.op # "" /\ lib_response'.email = Nil

\* C20: when BOOKSHELF_ENV is production, a /library request that carries no
\* X-Bookshelf-User-Email header is never served under the dev fallback
\* identity: create_app raised RuntimeError if the fallback is enabled, and
\* with the fallback disabled such a request gets no 2xx response and
\* creates or modifies no user row; GET /library/me/profile answers 401
\* with error "missing_identity".
C20_NoFallbackIdentityInProduction ==
    [][ProductionNext =>
          /\ app'.fallback => (app'.state = "raised" /\ app'.error = FallbackInProduction)
          /\ \A u \in User' : u.email # DevUserEmail
          /\ HeaderlessRequestNext =>
                /\ lib_response'.status \notin 200..299
                /\ User' = User
                /\ lib_response'.op = "get_my_profile" =>
                      (lib_response'.status = 401 /\ lib_response'.error = "missing_identity")
       ]_vars

\* C20 witness: a production app runs with the fallback disabled; a request
\* with the header was served and its user row exists; GET
\* /library/me/profile without the header was answered 401.
C20_Witness ==
    /\ app.state = "running"
    /\ NormalizedEnv(app.env) = "production"
    /\ ~app.fallback
    /\ \E u \in User : u.email = "ann@x.io"
    /\ lib_response.op = "get_my_profile"
    /\ lib_response.email = Nil
    /\ lib_response.status = 401
    /\ lib_response.error = "missing_identity"

(***************************************************************************)
(* Further claims about the detector.                                      *)
(***************************************************************************)
\* Boxes of two shelves whose bands touch and overlap.
RowBboxes == {b \in Bboxes : <<b[2], b[4]>> \in {<<0, 1>>, <<0, 2>>, <<1, 3>>, <<2, 3>>}}

RowBboxLists == UNION {[1..n -> RowBboxes] : n \in 0..MaxDet}

RowsInit ==
    /\ LibIdle
    /\ ExtIdle
    /\ ScanIdle
    /\ SvcIdle
    /\ sorted1 = <<>>
    /\ sorted2 = <<>>
    /\ crops_out = <<>>
    /\ spines_out = <<>>
    /\ dpc = "sort_ready"
    /\ \E bl \in RowBboxLists :
          detections = [i \in 1..Len(bl) |-> DetectedSpine(bl[i], ConfOf(FALSE, i), i - 1)]
    /\ raw = <<>>
    /\ min_area = 0
    /\ max_detections = 0

RowsNext == SortCall \/ SortAgain

SpecRows == RowsInit /\ [][RowsNext]_vars

\* The place of detections[i] in the left-to-right scan: ascending x1, ties
\* in input order.
ScanRank(dets, i) ==
    1 + Cardinality({j \in 1..Len(dets) :
                        \/ dets[j].bbox[1] < dets[i].bbox[1]
                        \/ dets[j].bbox[1] = dets[i].bbox[1] /\ j < i})

\* C21: row membership equals greedy first-fit: scanning the detections by
\* ascending x1 (ties in input order), each one joins the earliest-created
\* row whose span [min y1, max y2] of the members it has so far contains the
\* detection's vertical centre, and otherwise starts the next row; among
\* several rows holding the centre the earliest-created one is taken.
C21_FirstFitRows ==
    dpc \in {"sorted", "resorted"} =>
        LET rows == GroupedRows(detections)
            n    == Len(detections)
            rank(i) == ScanRank(detections, i)
            holds(r, i) == detections[i] \in Range(rows[r])
            rowOf(i) == CHOOSE r \in 1..Len(rows) : holds(r, i)
            before(i) == {j \in 1..n : rank(j) < rank(i)}
            created(i) == {rowOf(j) : j \in before(i)}
            members(r, i) == {j \in before(i) : rowOf(j) = r}
            top(r, i) == Min({detections[j].bbox[2] : j \in members(r, i)})
            bottom(r, i) == Max({detections[j].bbox[4] : j \in members(r, i)})
            centre2(i) == detections[i].bbox[2] + detections[i].bbox[4]
            fits(i) == {r \in created(i) :
                           /\ 2 * top(r, i) <= centre2(i)
                           /\ centre2(i) <= 2 * bottom(r, i)}
        IN  /\ \A i \in 1..n : Cardinality({r \in 1..Len(rows) : holds(r, i)}) = 1
            /\ \A r \in 1..Len(rows) : Len(rows[r]) >= 1
            /\ \A i \in 1..n :
                  rowOf(i) = IF fits(i) = {} THEN Cardinality(created(i)) + 1
                             ELSE Min(fits(i))
            /\ \A r \in 1..Len(rows) : \A a, b \in 1..Len(rows[r]) :
                  a < b =>
                    \E i, j \in 1..n :
                        /\ detections[i] = rows[r][a]
                        /\ detections[j] = rows[r][b]
                        /\ rank(i) < rank(j)

\* C21 witness: the third detection scanned has its centre in the spans of
\* both rows and nearer to the middle of the second row; it is in the first.
C21_Witness ==
    /\ dpc = "sorted"
    /\ Len(detections) = 3
    /\ LET rows == GroupedRows(detections)
       IN  /\ Len(rows) = 2
           /\ Len(rows[1]) = 2
           /\ CenterInRow(rows[1][2], <<rows[1][1]>>)
           /\ CenterInRow(rows[1][2], rows[2])
           /\ ~CenterInRow(rows[2][1], <<rows[1][1]>>)
           /\ rows[1][1].bbox[1] < rows[2][1].bbox[1]
           /\ rows[2][1].bbox[1] < rows[1][2].bbox[1]
           /\ rows[1][2].bbox = <<2, 1, 3, 3>>
           /\ rows[1][1].bbox = <<0, 0, 1, 2>>
           /\ rows[2][1].bbox = <<1, 2, 2, 3>>

(***************************************************************************)
(* Further claims about the extractor.                                     *)
(***************************************************************************)
\* C22: in the regex stage of _parse_response, when the response holds a
\* fragment "author": "<value>" the returned author is that value (as the
\* constructor cleans it), whether or not "author": null appears as well;
\* without such a fragment the author is null.
C22_RegexAuthorValueWins ==
    (ppc = "parsed" /\ ~parsed.raised /\ parsed.stage = 6) =>
        LET author_match == QuotedValueMatch(strip(response_in), W_author)
        IN  parsed.author = IF author_match # <<>>
                            THEN clean_author(Str(author_match[1]))
                            ELSE None

(***************************************************************************)
(* Claims about the services under concurrent requests.                    *)
(***************************************************************************)
\* The invocations of a service's factory that returned an instance.
FactoryReturns(service) ==
    factory_calls[service]
        - Cardinality({i \in 1..Len(gets) : gets[i].service = service /\ gets[i].raised})

\* C23: when requests call get_detector (or get_extractor, or get_client)
\* concurrently while nothing is cached, however the test of the attribute
\* and the assignment interleave, the factory builds an instance at most
\* once, every request receives the same instance, and the cached handle
\* is never replaced once it is set.
C23_ConcurrentGetBuildsOnce ==
    /\ [](\A service \in Services :
             /\ FactoryReturns(service) <= 1
             /\ \A i, j \in 1..Len(gets) :
                   (/\ gets[i].service = service
                    /\ gets[j].service = service
                    /\ ~gets[i].raised
                    /\ ~gets[j].raised) => gets[i].id = gets[j].id)
    /\ [][\A service \in Services :
             Cached(service) # Unset(service) => Cached(service)' = Cached(service)]_vars

(***************************************************************************)
(* Further claims about /scan/capture.                                     *)
(***************************************************************************)
\* The trimmed title is empty or opens with "[".
SentinelTitle(title) == strip(title) = <<>> \/ StartsWithBracket(strip(title))

\* C24: in /scan/capture, lookup is invoked at most once per detected spine,
\* never for a spine whose trimmed title is empty or starts with "[", and
\* never for a dropped duplicate; a sentinel-titled spine that stays in the
\* response carries the lookup {totalItems: 0, items: [], error: null}, with
\* or without an API key.
C24_LookupOnlyForRealTitles ==
    request.route = "/scan/capture" =>
        /\ Len(trace) <= Len(spines)
        /\ \A j \in 1..Len(trace) :
              /\ trace[j].lookup \in {"none", "raised", "returned"}
              /\ trace[j].extraction.raised => trace[j].lookup = "none"
              /\ (~trace[j].extraction.raised /\ SentinelTitle(trace[j].extraction.title))
                    => trace[j].lookup = "none"
              /\ trace[j].dropped => trace[j].lookup = "none"
        /\ \A k \in 1..Len(spine_results) :
              SentinelTitle(spine_results[k].extraction.title) =>
                  spine_results[k].lookup = [totalItems |-> 0, items |-> <<>>, error |-> None]

\* C24 witness: with a key configured, the first spine was looked up, the
\* second dropped as its duplicate and the third has a sentinel title; the
\* response holds the third with the empty lookup.
C24_Witness ==
    /\ spc = "done"
    /\ request.route = "/scan/capture"
    /\ http_response.status = 200
    /\ has_books_key
    /\ Len(trace) = 3
    /\ trace[1].lookup = "returned"
    /\ trace[2].dropped
    /\ trace[2].lookup = "none"
    /\ SentinelTitle(trace[3].extraction.title)
    /\ trace[3].lookup = "none"
    /\ Len(http_response.spines) = 2
    /\ http_response.spines[2].lookup = [totalItems |-> 0, items |-> <<>>, error |-> None]
    /\ http_response.spines[1].lookup.totalItems = 7

\* C25: the spine entries of a /scan/capture response come in the order in
\* which detect_all returned the detections: spineIndex is strictly
\* increasing along the list, whichever spines were dropped or failed, and
\* each entry reports the bbox and the detector confidence of its own
\* detection.
C25_ResponseInReadingOrder ==
    request.route = "/scan/capture" =>
        /\ \A k \in 1..Len(spine_results) :
              \E i \in 1..Len(spines) :
                  /\ i <= Len(trace)
                  /\ ~trace[i].dropped
                  /\ spine_results[k].spineIndex = spines[i].index
                  /\ spine_results[k].bbox = spines[i].bbox
                  /\ spine_results[k].confidence = spines[i].confidence
                  /\ Cardinality({h \in 1..i : ~trace[h].dropped /\ ~trace[h].extraction.raised}) = k
        /\ \A k \in 1..(Len(spine_results) - 1) :
              spine_results[k].spineIndex < spine_results[k + 1].spineIndex
        /\ http_response.status = 200 => http_response.spines = spine_results

\* C25 witness: of three spines the second was dropped as a duplicate and
\* the lookup of the third raised; the response lists the first and the
\* third, each with its own box.
C25_Witness ==
    /\ spc = "done"
    /\ request.route = "/scan/capture"
    /\ http_response.status = 200
    /\ Len(spines) = 3
    /\ trace[2].dropped
    /\ trace[3].lookup = "raised"
    /\ Len(http_response.spines) = 2
    /\ http_response.spines[1].bbox = spines[1].bbox
    /\ http_response.spines[2].bbox = spines[3].bbox
    /\ http_response.spines[2].confidence = spines[3].confidence
    /\ spines[1].bbox # spines[3].bbox
    /\ spines[1].confidence # spines[3].confidence

\* The first line of r that holds something other than whitespace, from its
\* first such character to the end of the line.
FirstNonEmptyLine(r) ==
    LET solid == {i \in 1..Len(r) : ~IsSpace(r[i])}
        ends  == {i \in 1..Len(r) : r[i] = NL /\ i > Min(solid)}
    IN  IF solid = {} THEN <<>>
        ELSE SubSeq(r, Min(solid), IF ends = {} THEN Len(r) ELSE Min(ends) - 1)

\* No JSON stage and no regex stage yields a title for the response.
NoStageYieldsTitle(r) ==
    /\ r # <<>>
    /\ \A k \in 2..5 : StageYield(r, k).raised
    /\ QuotedValueMatch(r, W_title) = <<>>

C26_SentinelCase ==
    /\ ppc = "parsed"
    /\ response_in = <<LBRACK, COLON, RBRACK>>
    /\ parsed.title = CouldNotParse
    /\ parsed.author = None

DroppedBefore(index) ==
    {h \in 1..Len(trace) : trace[h].dropped /\ spines[h].index < index}

C28_StatusMatchesReturnedAt ==
    \A loan \in Loan :
        /\ (loan.status = "returned") <=> (loan.returned_at # Nil)
        /\ (loan.status = "active") <=> (loan.returned_at = Nil)

\* A PATCH /library/me/friends/<id> request is answered 200 in this step.
FriendPatchedNext ==
    /\ lib_response'.op = "patch_my_friend"
    /\ lib_response'.status = 200

\* C29: PATCH /library/me/friends/<id> changes only the fields whose keys
\* are in the payload: each of name, email, avatarUrl, status and
\* friendUserId that the payload does not mention keeps the value it had
\* before the call.
C29_PatchKeepsAbsentFields ==
    [][FriendPatchedNext =>
          \A f \in Friend :
              f.id = lib_response'.id =>
                  \E g \in Friend' :
                      /\ g.id = f.id
                      /\ friend_payload'.name = Nil => g.name = f.name
                      /\ friend_payload'.email = Nil => g.email = f.email
                      /\ friend_payload'.avatarUrl = Nil => g.avatar_url = f.avatar_url
                      /\ friend_payload'.status = Nil => g.status = f.status
                      /\ friend_payload'.friendUserId = 0
                            => g.friend_user_id = f.friend_user_id]_vars

\* C30: a write by user A through the library book endpoints never changes
\* what user B's GET /library/me/books returns: every book request served
\* for one user leaves the serialized book list of every other user as it
\* was, also when both hold a book with the same googleBooksId or the same
\* normalized title.
C30_BookWritesStayWithTheirUser ==
    [][lib_response'.op \in {"add_my_book", "upsert_my_books_batch"} =>
          \A b \in User :
              b.email # Identity(lib_response'.email) =>
                  list_my_books(Book', UserBook', b.id) = list_my_books(Book, UserBook, b.id)
       ]_vars

====
